---- MODULE Spec2Model ----
(***************************************************************************)
(* A model of repoguide's analysis pipeline: tag extraction, the file      *)
(* dependency graph, the call graph and call sites, PageRank ranking and   *)
(* the focus projections (SelectFiles, FilterBySymbol, FilterByFile).      *)
(*                                                                         *)
(* Go strings are modelled as sequences of byte values, so that the        *)
(* ordering used by the sorts and the substring tests of the filters are   *)
(* computed as the code computes them.  float64 ranks are modelled as      *)
(* fixed-point numbers with Scale units to 1.0, every division rounding    *)
(* to the nearest unit.                                                    *)
(***************************************************************************)
EXTENDS Integers, Sequences, FiniteSets, TLC

VARIABLES
    pc,          \* position of run() in the pipeline (or of an API caller)
    files,       \* discovered file entries with their parsed sources
    fileInfos,   \* []model.FileInfo, local of run(); Rank sorts it in place
    deps,        \* result of BuildGraph
    callEdges,   \* result of BuildCallGraph
    rm,          \* *model.RepoMap currently held by run()
    maxFiles,    \* -n flag
    symbolFilter,\* --symbol flag
    fileFilter,  \* --file flag
    withMembers, \* withMembers argument of FilterBySymbol
    withTests,   \* --with-tests flag
    given,       \* fileInfos as parsed, before Rank sorts the slice
    before,      \* the RepoMap rm pointed to before the latest projection step
    input,       \* the RepoMap passed to the latest projection call, as it is now
    aliased,     \* rm is the very object that was passed to the latest projection call
    unfiltered,  \* the RepoMap run() hands to the --symbol and --file filters
    env,         \* GOMAXPROCS, the unreadable files, the languages whose query fails
    numWorkers,  \* parseFilesConcurrent: number of worker goroutines
    work,        \* buffer of the work channel: file indexes
    workClosed,  \* close(work) has run
    sent,        \* indexes the loop `for i := range files { work <- i }` has sent
    results,     \* buffer of the results channel
    resultsClosed, \* close(results) has run
    running,     \* counter of the WaitGroup
    wpc,         \* position of each worker
    widx,        \* idx held by each worker
    parsers,     \* the parsers map of each worker: language -> parser
    created,     \* every parser made by NewParser, with its worker and language
    used,        \* every use of a parser by ExtractTags: parser, worker, file index
    compiles,    \* per language, how often queryOnce ran the compilation
    warned,      \* file indexes a warning was written for
    indexed,     \* parseFilesConcurrent: indexed []model.FileInfo
    valid,       \* parseFilesConcurrent: valid []bool
    arrived,     \* the indexes of the results in the order main received them
    cachePath,   \* run(): --cache was given
    cache,       \* the cache file: whether it exists, is fresh, and its bytes
    stdout,      \* what the latest command wrote to stdout
    runs,        \* number of runs of run() started so far
    callSite,    \* a call site handed to FindEnclosingDef: language and ancestors
    enclosing,   \* what FindEnclosingDef returned for callSite
    target,      \* runInit: the content of the file at path
    inits,       \* number of runs of `repoguide init` that wrote to path
    firstResult  \* the content of the file after the first of them

vars == <<pc, files, fileInfos, deps, callEdges, rm,
          maxFiles, symbolFilter, fileFilter, withMembers, withTests, given, before,
          input, aliased, unfiltered,
          env, numWorkers, work, workClosed, sent, results, resultsClosed, running,
          wpc, widx, parsers, created, used, compiles, warned, indexed, valid, arrived,
          cachePath, cache, stdout, runs, callSite, enclosing,
          target, inits, firstResult>>

(* The state outside the pipeline: the cache file and stdout of run(), and *)
(* the call site of a language adapter.                                    *)
cacheVars == <<cachePath, cache, stdout, runs>>
siteVars == <<callSite, enclosing>>
initVars == <<target, inits, firstResult>>
cmdVars == <<cacheVars, siteVars, initVars>>

(* The state of parseFilesConcurrent. *)
parVars == <<env, numWorkers, work, workClosed, sent, results, resultsClosed, running,
             wpc, widx, parsers, created, used, compiles, warned, indexed, valid, arrived>>

(* The state of run() after parsing, and of an API caller. *)
pipeVars == <<deps, callEdges, rm, maxFiles, symbolFilter, fileFilter, withMembers,
              withTests, before, input, aliased, unfiltered>>

-----------------------------------------------------------------------------
(* Bounds of the model. *)

MaxTags == 4
MaxMatches == 3
MaxFieldTags == 4
MaxParseFiles == 3
MaxProcs == 2
MaxRuns == 2
MaxCacheMatches == 1
MaxScopes == 3
MaxContent == 3
MaxInits == 2
Scale == 1000000

-----------------------------------------------------------------------------
(* Strings: sequences of byte values. *)

EmptyStr == <<>>
Dot == <<46>>

(* Go's built-in < on strings: bytewise lexicographic. *)
RECURSIVE StrLess(_, _)
StrLess(a, b) ==
    IF b = <<>> THEN FALSE
    ELSE IF a = <<>> THEN TRUE
    ELSE IF Head(a) # Head(b) THEN Head(a) < Head(b)
    ELSE StrLess(Tail(a), Tail(b))

(* strings.ToLower on ASCII. *)
ToLower(s) == [i \in 1..Len(s) |-> IF s[i] >= 65 /\ s[i] <= 90 THEN s[i] + 32 ELSE s[i]]

(* strings.Contains(s, sub). *)
Contains(s, sub) ==
    \E k \in 0..(Len(s) - Len(sub)) : SubSeq(s, k + 1, k + Len(sub)) = sub

(* strings.LastIndex(s, "."), 0-based, -1 when absent. *)
LastIndexDot(s) ==
    IF \E i \in 1..Len(s) : s[i] = 46
    THEN (CHOOSE i \in 1..Len(s) : s[i] = 46 /\ \A j \in (i+1)..Len(s) : s[j] # 46) - 1
    ELSE -1

(* The less functions handed to sort.Slice and sort.Strings. *)
DepLess(x, y) ==
    IF x.Source # y.Source THEN StrLess(x.Source, y.Source)
    ELSE StrLess(x.Target, y.Target)

CallEdgeLess(x, y) ==
    IF x.Caller # y.Caller THEN StrLess(x.Caller, y.Caller)
    ELSE StrLess(x.Callee, y.Callee)

CallSiteLess(x, y) ==
    IF x.Caller # y.Caller THEN StrLess(x.Caller, y.Caller)
    ELSE IF x.Callee # y.Callee THEN StrLess(x.Callee, y.Callee)
    ELSE IF x.File # y.File THEN StrLess(x.File, y.File)
    ELSE x.Line < y.Line

Less(by, x, y) ==
    CASE by = "string" -> StrLess(x, y)
      [] by = "dependency" -> DepLess(x, y)
      [] by = "callEdge" -> CallEdgeLess(x, y)
      [] by = "callSite" -> CallSiteLess(x, y)

(* s sorted by Less(by, _, _); elements that compare equal keep their order. *)
SortBy(s, by) ==
    LET RECURSIVE Ins(_, _)
        Ins(x, t) ==
            IF t = <<>> THEN <<x>>
            ELSE IF Less(by, x, Head(t)) THEN <<x>> \o t
            ELSE <<Head(t)>> \o Ins(x, Tail(t))
        RECURSIVE Go(_, _)
        Go(i, acc) == IF i > Len(s) THEN acc ELSE Go(i + 1, Ins(s[i], acc))
    IN Go(1, <<>>)

(* The keys of a Go map in some iteration order. *)
RECURSIVE SetToSeq(_)
SetToSeq(S) ==
    IF S = {} THEN <<>>
    ELSE LET x == CHOOSE y \in S : TRUE IN <<x>> \o SetToSeq(S \ {x})

(* sortedKeys: the keys of a set of strings in ascending order. *)
sortedKeys(m) == SortBy(SetToSeq(m), "string")

(* contains(slice, s). *)
contains(slice, s) == \E i \in 1..Len(slice) : slice[i] = s

-----------------------------------------------------------------------------
(* internal/model: kinds and the import sentinel. *)

Definition == "def"
Reference == "ref"
Class == "class"
Field == "field"
Function == "function"
Method == "method"
Module == "module"

(* "<import>" *)
ImportCaller == <<60, 105, 109, 112, 111, 114, 116, 62>>

(* The nested loops `for i := range fileInfos { for j := range fi.Tags` as the *)
(* sequence of (path, tag) pairs they visit, in order.                       *)
RECURSIVE FlattenFrom(_, _)
FlattenFrom(fis, i) ==
    IF i > Len(fis) THEN <<>>
    ELSE [j \in 1..Len(fis[i].Tags) |-> [Path |-> fis[i].Path, Tag |-> fis[i].Tags[j]]]
         \o FlattenFrom(fis, i + 1)

Flatten(fis) == FlattenFrom(fis, 1)

-----------------------------------------------------------------------------
(* internal/graph: BuildGraph. *)

(* defines[name] built from the tags of either kind. *)
DefinesAnyKind(fis, name) ==
    {fis[i].Path : i \in {k \in 1..Len(fis) :
        \E j \in 1..Len(fis[k].Tags) : fis[k].Tags[j].Name = name}}

(* defines[name]: the set of files holding a Definition tag called name. *)
Defines(fis, name) ==
    {fis[i].Path : i \in {k \in 1..Len(fis) :
        \E j \in 1..Len(fis[k].Tags) :
            fis[k].Tags[j].Kind = Definition /\ fis[k].Tags[j].Name = name}}

(* An append without the contains test. *)
AddSymbolAlways(es, key, name) ==
    IF key \in DOMAIN es THEN [es EXCEPT ![key] = Append(@, name)]
    ELSE es @@ (key :> <<name>>)

(* `if !contains(edgeSymbols[key], name) { edgeSymbols[key] = append(...) }` *)
AddSymbol(es, key, name) ==
    IF key \in DOMAIN es
    THEN IF contains(es[key], name) THEN es ELSE [es EXCEPT ![key] = Append(@, name)]
    ELSE es @@ (key :> <<name>>)

RECURSIVE VisitTargets(_, _, _, _)

(* The loop over the defining files without the self-edge test. *)
VisitTargetsWithSelf(es, src, name, sorted) ==
    IF sorted = <<>> THEN es
    ELSE VisitTargets(AddSymbol(es, <<src, Head(sorted)>>, name), src, name, Tail(sorted))

(* `for _, defFile := range sorted` with the self-edge test. *)
VisitTargets(es, src, name, sorted) ==
    IF sorted = <<>> THEN es
    ELSE VisitTargets(IF Head(sorted) = src THEN es
                      ELSE AddSymbol(es, <<src, Head(sorted)>>, name),
                      src, name, Tail(sorted))

(* The second loop of BuildGraph over every tag of every file. *)
RECURSIVE EdgeSymbolsFrom(_, _, _, _)
EdgeSymbolsFrom(es, fis, flat, k) ==
    IF k > Len(flat) THEN es
    ELSE LET tag == flat[k].Tag
         IN EdgeSymbolsFrom(
                IF tag.Kind # Reference THEN es
                ELSE VisitTargets(es, flat[k].Path, tag.Name,
                                  sortedKeys(Defines(fis, tag.Name))),
                fis, flat, k + 1)

EdgeSymbols(fis) == EdgeSymbolsFrom([x \in {} |-> <<>>], fis, Flatten(fis), 1)

BuildGraph(fis) ==
    LET es == EdgeSymbols(fis)
    IN SortBy(SetToSeq({[Source |-> key[1], Target |-> key[2], Symbols |-> es[key]] :
                            key \in DOMAIN es}),
              "dependency")

-----------------------------------------------------------------------------
(* internal/graph: BuildCallGraph and BuildCallSites. *)

(* knownDefs filled from the tags of either kind. *)
KnownNames(fis) ==
    LET flat == Flatten(fis)
    IN {flat[k].Tag.Name : k \in 1..Len(flat)}

(* knownDefs: the names of all Definition tags. *)
KnownDefs(fis) ==
    LET flat == Flatten(fis)
    IN {flat[k].Tag.Name : k \in {m \in 1..Len(flat) : flat[m].Tag.Kind = Definition}}

RECURSIVE CallEdgesFrom(_, _, _, _, _)

(* The loop of BuildCallGraph without the test of `seen`. *)
CallEdgesFromUnseen(flat, known, k, seen, edges) ==
    IF k > Len(flat) THEN edges
    ELSE LET tag == flat[k].Tag
         IN IF tag.Kind # Reference \/ tag.Enclosing = EmptyStr \/ tag.Name \notin known
            THEN CallEdgesFrom(flat, known, k + 1, seen, edges)
            ELSE CallEdgesFrom(flat, known, k + 1, seen,
                               Append(edges, [Caller |-> tag.Enclosing, Callee |-> tag.Name]))

(* The second loop of BuildCallGraph: one edge per new (caller, callee). *)
CallEdgesFrom(flat, known, k, seen, edges) ==
    IF k > Len(flat) THEN edges
    ELSE LET tag == flat[k].Tag
             key == <<tag.Enclosing, tag.Name>>
         IN IF tag.Kind # Reference \/ tag.Enclosing = EmptyStr
                \/ tag.Name \notin known \/ key \in seen
            THEN CallEdgesFrom(flat, known, k + 1, seen, edges)
            ELSE CallEdgesFrom(flat, known, k + 1, seen \cup {key},
                               Append(edges, [Caller |-> tag.Enclosing, Callee |-> tag.Name]))

(* BuildCallGraph without the final sort.Slice. *)
BuildCallGraphUnsorted(fis) == CallEdgesFrom(Flatten(fis), KnownDefs(fis), 1, {}, <<>>)

BuildCallGraph(fis) ==
    SortBy(CallEdgesFrom(Flatten(fis), KnownDefs(fis), 1, {}, <<>>), "callEdge")

RECURSIVE CallSitesFrom(_, _, _, _)
CallSitesFrom(flat, known, k, sites) ==
    IF k > Len(flat) THEN sites
    ELSE LET tag == flat[k].Tag
         IN IF tag.Kind # Reference \/ tag.Name \notin known
            THEN CallSitesFrom(flat, known, k + 1, sites)
            ELSE CallSitesFrom(flat, known, k + 1,
                    Append(sites, [Caller |-> IF tag.Enclosing = EmptyStr
                                              THEN ImportCaller ELSE tag.Enclosing,
                                   Callee |-> tag.Name,
                                   File |-> flat[k].Path,
                                   Line |-> tag.Line]))

BuildCallSites(fis) ==
    SortBy(CallSitesFrom(Flatten(fis), KnownDefs(fis), 1, <<>>), "callSite")

-----------------------------------------------------------------------------
(* internal/graph: Rank and pageRank, in fixed point. *)

Alpha == 85
AlphaDen == 100
MaxIter == 100
TolDen == 1000000

(* One float64 division, rounded to the nearest unit. *)
FDiv(num, den) == (2 * num + den) \div (2 * den)

Abs(x) == IF x < 0 THEN -x ELSE x

RECURSIVE SumOver(_, _)
SumOver(f, S) ==
    IF S = {} THEN 0
    ELSE LET x == CHOOSE y \in S : TRUE IN f[x] + SumOver(f, S \ {x})

(* Number of parallel edges src -> tgt: one per symbol of each Dependency. *)
RECURSIVE EdgeCountFrom(_, _, _, _)
EdgeCountFrom(ds, src, tgt, i) ==
    IF i > Len(ds) THEN 0
    ELSE (IF ds[i].Source = src /\ ds[i].Target = tgt THEN Len(ds[i].Symbols) ELSE 0)
         + EdgeCountFrom(ds, src, tgt, i + 1)

EdgeCount(ds, src, tgt) == EdgeCountFrom(ds, src, tgt, 1)

(* The keys of outEdges: sources of a Dependency with at least one symbol. *)
DepSources(ds) == {ds[i].Source : i \in {k \in 1..Len(ds) : Len(ds[k].Symbols) > 0}}

DepTargets(ds) == {ds[i].Target : i \in {k \in 1..Len(ds) : Len(ds[k].Symbols) > 0}}

(* A Go map holding the entries of f, every entry computed once. *)
RECURSIVE MakeMap(_, _)
MakeMap(f, keys) ==
    IF keys = {} THEN <<>>
    ELSE LET k == CHOOSE x \in keys : TRUE IN (k :> f[k]) @@ MakeMap(f, keys \ {k})

(* outEdges: for each source, how often each target occurs in its list. *)
OutEdges(ds) ==
    [src \in DepSources(ds) |-> [tgt \in DepTargets(ds) |-> EdgeCount(ds, src, tgt)]]

(* outDegree over the given keys; a missing key reads as 0. *)
OutDegree(ds, keys) ==
    MakeMap([v \in keys |-> IF v \in DepSources(ds)
                            THEN SumOver(OutEdges(ds)[v], DepTargets(ds)) ELSE 0], keys)

(* An iteration that drops the rank of the dangling nodes. *)
PageRankStepLossy(rank, nodes, outEdges, outDegree) ==
    LET n == Cardinality(nodes)
        teleport == FDiv((AlphaDen - Alpha) * Scale, AlphaDen * n)
        danglingSum == SumOver(rank, {v \in nodes : outDegree[v] = 0})
        danglingContrib == 0
        contrib == [src \in DOMAIN outEdges |->
                        FDiv(Alpha * rank[src], AlphaDen * outDegree[src])]
    IN MakeMap([v \in DOMAIN rank |->
                    (IF v \in nodes THEN teleport + danglingContrib ELSE 0)
                    + SumOver([src \in DOMAIN outEdges |->
                                  IF v \in DOMAIN outEdges[src]
                                  THEN outEdges[src][v] * contrib[src] ELSE 0],
                              DOMAIN outEdges)],
               DOMAIN rank)

(* One iteration of the loop of pageRank: newRank from rank. A key absent  *)
(* from a Go map reads as 0, so the maps are total over every path named.  *)
PageRankStep(rank, nodes, outEdges, outDegree) ==
    LET n == Cardinality(nodes)
        teleport == FDiv((AlphaDen - Alpha) * Scale, AlphaDen * n)
        danglingSum == SumOver(rank, {v \in nodes : outDegree[v] = 0})
        danglingContrib == FDiv(Alpha * danglingSum, AlphaDen * n)
        contrib == [src \in DOMAIN outEdges |->
                        FDiv(Alpha * rank[src], AlphaDen * outDegree[src])]
    IN MakeMap([v \in DOMAIN rank |->
                    (IF v \in nodes THEN teleport + danglingContrib ELSE 0)
                    + SumOver([src \in DOMAIN outEdges |->
                                  IF v \in DOMAIN outEdges[src]
                                  THEN outEdges[src][v] * contrib[src] ELSE 0],
                              DOMAIN outEdges)],
               DOMAIN rank)

RECURSIVE PageRankIter(_, _, _, _, _)
PageRankIter(rank, nodes, outEdges, outDegree, iter) ==
    IF iter >= MaxIter THEN rank
    ELSE LET newRank == PageRankStep(rank, nodes, outEdges, outDegree)
             diff == SumOver([v \in nodes |-> Abs(newRank[v] - rank[v])], nodes)
         IN IF diff < Scale \div TolDen THEN newRank
            ELSE PageRankIter(newRank, nodes, outEdges, outDegree, iter + 1)

pageRank(nodes, outEdges, outDegree) ==
    PageRankIter(MakeMap([v \in DOMAIN outDegree |->
                             IF v \in nodes THEN FDiv(Scale, Cardinality(nodes)) ELSE 0],
                         DOMAIN outDegree),
                 nodes, outEdges, outDegree, 0)

RankLess(x, y) == x.Rank > y.Rank

(* The permutations of s that sort.Slice may return for RankLess: it is    *)
(* not stable, so elements that compare equal may end in any order.        *)
SortOutcomes(s) ==
    {t \in {[i \in 1..Len(s) |-> s[p[i]]] : p \in Permutations(1..Len(s))} :
        \A i, j \in 1..Len(s) : i < j => ~RankLess(t[j], t[i])}

(* The values fileInfos may hold after Rank(fileInfos, deps). *)
Rank(fis, ds) ==
    IF Len(fis) = 0 THEN {fis}
    ELSE IF Len(ds) = 0
    THEN {[i \in 1..Len(fis) |-> [fis[i] EXCEPT !.Rank = FDiv(Scale, Len(fis))]]}
    ELSE LET nodes == {fis[i].Path : i \in 1..Len(fis)}
             keys == nodes \cup DepSources(ds) \cup DepTargets(ds)
             ranks == pageRank(nodes, OutEdges(ds), OutDegree(ds, keys))
         IN SortOutcomes([i \in 1..Len(fis) |-> [fis[i] EXCEPT !.Rank = ranks[fis[i].Path]]])

-----------------------------------------------------------------------------
(* internal/ranking: SelectFiles, FilterBySymbol, FilterByFile. *)

NoTags == <<>>

(* All tags of a file list, in order. *)
TagsOf(fs) == LET flat == Flatten(fs) IN [k \in 1..Len(flat) |-> flat[k].Tag]

PathsOf(fs) == {fs[i].Path : i \in 1..Len(fs)}

(* Names of the Definition tags of a file list (selectedDefs, defToFile). *)
DefNames(fs) == KnownDefs(fs)

(* A selection that copies rm.Dependencies as they are. *)
SelectTopKeepsAllDeps(m, n) ==
    LET selected == SubSeq(m.Files, 1, n)
        selectedDefs == DefNames(selected)
    IN [Files |-> selected,
        Dependencies |-> m.Dependencies,
        CallEdges |-> SelectSeq(m.CallEdges, LAMBDA ce : ce.Caller \in selectedDefs),
        CallSites |-> SelectSeq(m.CallSites, LAMBDA cs : cs.Caller \in selectedDefs),
        Members |-> NoTags]

(* A selection that keeps a Dependency when either endpoint survives. *)
SelectTopEitherEnd(m, n) ==
    LET selected == SubSeq(m.Files, 1, n)
        selectedPaths == PathsOf(selected)
        selectedDefs == DefNames(selected)
    IN [Files |-> selected,
        Dependencies |-> SelectSeq(m.Dependencies,
            LAMBDA d : d.Source \in selectedPaths \/ d.Target \in selectedPaths),
        CallEdges |-> SelectSeq(m.CallEdges, LAMBDA ce : ce.Caller \in selectedDefs),
        CallSites |-> SelectSeq(m.CallSites, LAMBDA cs : cs.Caller \in selectedDefs),
        Members |-> NoTags]

(* SelectFiles past its early return: the first n files and what they keep. *)
SelectTop(m, n) ==
    LET selected == SubSeq(m.Files, 1, n)
        selectedPaths == PathsOf(selected)
        selectedDefs == DefNames(selected)
    IN [Files |-> selected,
        Dependencies |-> SelectSeq(m.Dependencies,
            LAMBDA d : d.Source \in selectedPaths /\ d.Target \in selectedPaths),
        CallEdges |-> SelectSeq(m.CallEdges, LAMBDA ce : ce.Caller \in selectedDefs),
        CallSites |-> SelectSeq(m.CallSites, LAMBDA cs : cs.Caller \in selectedDefs),
        Members |-> NoTags]

(* An early return that lets maxFiles = len(rm.Files) through. *)
SelectFilesPastEnd(m, n) ==
    IF n <= 0 \/ n > Len(m.Files) THEN m ELSE SelectTop(m, n)

(* A selection that copies rm.CallSites as they are. *)
SelectFilesKeepsAllSites(m, n) ==
    IF n <= 0 \/ n >= Len(m.Files) THEN m
    ELSE [SelectTop(m, n) EXCEPT !.CallSites = m.CallSites]

SelectFiles(m, n) ==
    IF n <= 0 \/ n >= Len(m.Files) THEN m ELSE SelectTop(m, n)

(* The part of a qualified name after its last ".". *)
Unqualified(name) ==
    IF LastIndexDot(name) >= 0 THEN SubSeq(name, LastIndexDot(name) + 2, Len(name)) ELSE name

(* The part of a qualified name before its last ".". *)
OwnerName(name) == SubSeq(name, 1, LastIndexDot(name))

(* First loop of FilterBySymbol: non-field definitions containing substr. *)
PrimaryMatches(fs, lower) ==
    LET tags == TagsOf(fs)
    IN {tags[k].Name : k \in {i \in 1..Len(tags) :
            /\ tags[i].Kind = Definition
            /\ tags[i].SymbolKind # Field
            /\ Contains(ToLower(tags[i].Name), lower)}}

(* Member fallback: field definitions whose unqualified name contains substr. *)
FallbackMatches(fs, lower) ==
    LET tags == TagsOf(fs)
    IN {tags[k].Name : k \in {i \in 1..Len(tags) :
            /\ tags[i].Kind = Definition
            /\ tags[i].SymbolKind = Field
            /\ Contains(ToLower(Unqualified(tags[i].Name)), lower)}}

MatchedSymbols(m, substr, members) ==
    LET primary == PrimaryMatches(m.Files, ToLower(substr))
    IN IF members /\ primary = {} THEN FallbackMatches(m.Files, ToLower(substr))
       ELSE primary

(* Files that hold a tag which put its name into matchedSymbols. *)
DirectlyMatchedFiles(m, substr, members) ==
    LET lower == ToLower(substr)
        primary == PrimaryMatches(m.Files, lower)
        fallback == members /\ primary = {}
    IN {m.Files[i].Path : i \in {k \in 1..Len(m.Files) :
            \E j \in 1..Len(m.Files[k].Tags) :
                LET tag == m.Files[k].Tags[j]
                IN /\ tag.Kind = Definition
                   /\ IF tag.SymbolKind # Field
                      THEN Contains(ToLower(tag.Name), lower)
                      ELSE fallback /\ Contains(ToLower(Unqualified(tag.Name)), lower)}}

(* An expansion that follows CallEdges from a matched caller only. *)
RelatedSymbolsCalleesOnly(m, matched) ==
    {m.CallEdges[i].Callee : i \in {k \in 1..Len(m.CallEdges) : m.CallEdges[k].Caller \in matched}}

RelatedSymbols(m, matched) ==
    {m.CallEdges[i].Callee : i \in {k \in 1..Len(m.CallEdges) : m.CallEdges[k].Caller \in matched}}
    \cup
    {m.CallEdges[i].Caller : i \in {k \in 1..Len(m.CallEdges) : m.CallEdges[k].Callee \in matched}}

(* Files defining a related symbol. *)
RelatedFiles(m, related) ==
    {m.Files[i].Path : i \in {k \in 1..Len(m.Files) :
        \E j \in 1..Len(m.Files[k].Tags) :
            m.Files[k].Tags[j].Kind = Definition /\ m.Files[k].Tags[j].Name \in related}}

(* Phase A and phase B of the members collection. *)
CollectMembers(m, matched) ==
    LET fields == SelectSeq(TagsOf(m.Files),
                            LAMBDA t : t.Kind = Definition /\ t.SymbolKind = Field)
        phaseA == SelectSeq(fields,
                            LAMBDA t : LastIndexDot(t.Name) >= 0 /\ OwnerName(t.Name) \in matched)
    IN IF Len(phaseA) = 0 THEN SelectSeq(fields, LAMBDA t : t.Name \in matched)
       ELSE phaseA

(* A symbol filter that keeps a Dependency only when both endpoints matched. *)
FilterBySymbolBothEnds(m, substr, members) ==
    LET matchedSymbols == MatchedSymbols(m, substr, members)
        relatedSymbols == RelatedSymbols(m, matchedSymbols)
        matchedFiles == DirectlyMatchedFiles(m, substr, members)
                        \cup RelatedFiles(m, relatedSymbols)
        kept == SelectSeq(m.Files, LAMBDA fi : fi.Path \in matchedFiles)
    IN [Files |-> [i \in 1..Len(kept) |->
                      [kept[i] EXCEPT !.Tags = SelectSeq(@, LAMBDA t :
                          /\ t.Kind = Definition
                          /\ t.SymbolKind # Field
                          /\ (t.Name \in matchedSymbols \/ t.Name \in relatedSymbols))]],
        Dependencies |-> SelectSeq(m.Dependencies,
            LAMBDA d : d.Source \in matchedFiles /\ d.Target \in matchedFiles),
        CallEdges |-> SelectSeq(m.CallEdges,
            LAMBDA ce : ce.Caller \in matchedSymbols \/ ce.Callee \in matchedSymbols),
        CallSites |-> SelectSeq(m.CallSites,
            LAMBDA cs : cs.Caller \in matchedSymbols \/ cs.Callee \in matchedSymbols),
        Members |-> IF members THEN CollectMembers(m, matchedSymbols) ELSE NoTags]

FilterBySymbol(m, substr, members) ==
    LET matchedSymbols == MatchedSymbols(m, substr, members)
        relatedSymbols == RelatedSymbols(m, matchedSymbols)
        matchedFiles == DirectlyMatchedFiles(m, substr, members)
                        \cup RelatedFiles(m, relatedSymbols)
        kept == SelectSeq(m.Files, LAMBDA fi : fi.Path \in matchedFiles)
    IN [Files |-> [i \in 1..Len(kept) |->
                      [kept[i] EXCEPT !.Tags = SelectSeq(@, LAMBDA t :
                          /\ t.Kind = Definition
                          /\ t.SymbolKind # Field
                          /\ (t.Name \in matchedSymbols \/ t.Name \in relatedSymbols))]],
        Dependencies |-> SelectSeq(m.Dependencies,
            LAMBDA d : d.Source \in matchedFiles \/ d.Target \in matchedFiles),
        CallEdges |-> SelectSeq(m.CallEdges,
            LAMBDA ce : ce.Caller \in matchedSymbols \/ ce.Callee \in matchedSymbols),
        CallSites |-> SelectSeq(m.CallSites,
            LAMBDA cs : cs.Caller \in matchedSymbols \/ cs.Callee \in matchedSymbols),
        Members |-> IF members THEN CollectMembers(m, matchedSymbols) ELSE NoTags]

(* A file filter that compares paths without folding case. *)
FilterByFileCaseSensitive(m, substr) ==
    LET kept == SelectSeq(m.Files, LAMBDA fi : Contains(fi.Path, substr))
        matchedFiles == PathsOf(kept)
        defToFile == DefNames(kept)
    IN [Files |-> kept,
        Dependencies |-> SelectSeq(m.Dependencies,
            LAMBDA d : d.Source \in matchedFiles \/ d.Target \in matchedFiles),
        CallEdges |-> SelectSeq(m.CallEdges, LAMBDA ce : ce.Caller \in defToFile),
        CallSites |-> SelectSeq(m.CallSites, LAMBDA cs : cs.File \in matchedFiles),
        Members |-> NoTags]

(* A file filter whose loop over rm.Dependencies starts at the second one. *)
FilterByFileSkipsFirstDep(m, substr) ==
    LET kept == SelectSeq(m.Files, LAMBDA fi : Contains(ToLower(fi.Path), ToLower(substr)))
        matchedFiles == PathsOf(kept)
        defToFile == DefNames(kept)
    IN [Files |-> kept,
        Dependencies |-> SelectSeq(SubSeq(m.Dependencies, 2, Len(m.Dependencies)),
            LAMBDA d : d.Source \in matchedFiles \/ d.Target \in matchedFiles),
        CallEdges |-> SelectSeq(m.CallEdges, LAMBDA ce : ce.Caller \in defToFile),
        CallSites |-> SelectSeq(m.CallSites, LAMBDA cs : cs.File \in matchedFiles),
        Members |-> NoTags]

FilterByFile(m, substr) ==
    LET kept == SelectSeq(m.Files, LAMBDA fi : Contains(ToLower(fi.Path), ToLower(substr)))
        matchedFiles == PathsOf(kept)
        defToFile == DefNames(kept)
    IN [Files |-> kept,
        Dependencies |-> SelectSeq(m.Dependencies,
            LAMBDA d : d.Source \in matchedFiles \/ d.Target \in matchedFiles),
        CallEdges |-> SelectSeq(m.CallEdges, LAMBDA ce : ce.Caller \in defToFile),
        CallSites |-> SelectSeq(m.CallSites, LAMBDA cs : cs.File \in matchedFiles),
        Members |-> NoTags]

-----------------------------------------------------------------------------
(* internal/lang (python adapter) and internal/parse: ExtractTags.          *)
(* A parsed source is the sequence of query matches the cursor yields. A    *)
(* match holds the pattern capture, whether a @name capture is present, the *)
(* name's text and row, and Ctx: the ancestors of the captured node, parent *)
(* first, each with its node type and the text of its identifier child.     *)

(* captureMap *)
CaptureKind(c) ==
    IF c \in {"definition.class", "definition.function", "definition.method"}
    THEN Definition ELSE Reference

CaptureSymbolKind(c) ==
    CASE c = "definition.class" -> Class
      [] c = "definition.function" -> Function
      [] c = "definition.method" -> Method
      [] c = "reference.call" -> Function
      [] c = "reference.import" -> Module

CaptureNames == {"definition.class", "definition.function", "definition.method",
                 "reference.call", "reference.import"}

(* pythonFindEnclosingClass: index in ctx of the class_definition holding  *)
(* the function whose ancestors are ctx, or 0.                             *)
pythonFindEnclosingClass(ctx) ==
    IF Len(ctx) = 0 THEN 0
    ELSE IF ctx[1].Type = "block" /\ Len(ctx) >= 2 /\ ctx[2].Type = "class_definition"
    THEN 2
    ELSE IF ctx[1].Type = "decorated_definition" /\ Len(ctx) >= 3
            /\ ctx[2].Type = "block" /\ ctx[3].Type = "class_definition"
    THEN 3
    ELSE 0

pythonFindMethodClass(ctx) ==
    IF pythonFindEnclosingClass(ctx) = 0 THEN EmptyStr
    ELSE ctx[pythonFindEnclosingClass(ctx)].Name

RECURSIVE pythonFindEnclosingDefFrom(_, _)
pythonFindEnclosingDefFrom(ctx, i) ==
    IF i > Len(ctx) THEN EmptyStr
    ELSE IF ctx[i].Type = "function_definition"
    THEN IF ctx[i].Name = EmptyStr THEN EmptyStr
         ELSE LET above == SubSeq(ctx, i + 1, Len(ctx))
                  cls == pythonFindEnclosingClass(above)
              IN IF cls # 0 /\ above[cls].Name # EmptyStr
                 THEN above[cls].Name \o Dot \o ctx[i].Name
                 ELSE ctx[i].Name
    ELSE pythonFindEnclosingDefFrom(ctx, i + 1)

pythonFindEnclosingDef(ctx) == pythonFindEnclosingDefFrom(ctx, 1)

(* rubyClassName of the nearest class or module among ctx[i..], or "". *)
RECURSIVE rubyEnclosingClassName(_, _)
rubyEnclosingClassName(ctx, i) ==
    IF i > Len(ctx) THEN EmptyStr
    ELSE IF ctx[i].Type \in {"class", "module"} THEN ctx[i].Name
    ELSE rubyEnclosingClassName(ctx, i + 1)

(* rubyFindEnclosingDef: the nearest method or singleton_method ancestor,  *)
(* qualified by the nearest class or module above it.                      *)
RECURSIVE rubyFindEnclosingDefFrom(_, _)
rubyFindEnclosingDefFrom(ctx, i) ==
    IF i > Len(ctx) THEN EmptyStr
    ELSE IF ctx[i].Type \in {"method", "singleton_method"}
    THEN IF ctx[i].Name = EmptyStr THEN EmptyStr
         ELSE LET cls == rubyEnclosingClassName(ctx, i + 1)
              IN IF cls # EmptyStr THEN cls \o Dot \o ctx[i].Name ELSE ctx[i].Name
    ELSE rubyFindEnclosingDefFrom(ctx, i + 1)

rubyFindEnclosingDef(ctx) == rubyFindEnclosingDefFrom(ctx, 1)

(* Language.FindEnclosingDef of the registered language. *)
FindEnclosingDef(language, ctx) ==
    IF language = "python" THEN pythonFindEnclosingDef(ctx) ELSE rubyFindEnclosingDef(ctx)

(* The tag of one match, or no tag when the match is skipped. *)
MatchTags(m, filePath) ==
    IF ~m.HasName \/ m.Capture \notin CaptureNames THEN <<>>
    ELSE LET tagKind == CaptureKind(m.Capture)
             cls == pythonFindMethodClass(m.Ctx)
             isMethod == tagKind = Definition /\ CaptureSymbolKind(m.Capture) = Function
                         /\ cls # EmptyStr
         IN << [Name |-> IF isMethod THEN cls \o Dot \o m.Name ELSE m.Name,
                Kind |-> tagKind,
                SymbolKind |-> IF isMethod THEN Method ELSE CaptureSymbolKind(m.Capture),
                Line |-> m.Row + 1,
                File |-> filePath,
                Enclosing |-> IF tagKind = Reference /\ CaptureSymbolKind(m.Capture) = Function
                              THEN pythonFindEnclosingDef(m.Ctx) ELSE EmptyStr] >>

RECURSIVE ExtractTagsFrom(_, _, _)
ExtractTagsFrom(matches, filePath, k) ==
    IF k > Len(matches) THEN <<>>
    ELSE MatchTags(matches[k], filePath) \o ExtractTagsFrom(matches, filePath, k + 1)

ExtractTags(matches, filePath) == ExtractTagsFrom(matches, filePath, 1)

-----------------------------------------------------------------------------
(* Inputs. *)

(* "a", "B", "ab", "b" *)
PathPool == << <<97>>, <<66>>, <<97, 98>> >>

(* "f", "G" *)
nF == <<102>>
nG == <<71>>

(* Substrings given to --symbol and --file: "", "g" and "", "b". *)
SymbolFilters == {EmptyStr, <<103>>}
FileFilters == {EmptyStr, <<98>>}

Reverse(s) == [i \in 1..Len(s) |-> s[Len(s) + 1 - i]]

(* The first k paths of the pool in ascending order. *)
Ascending(k) == sortedKeys({PathPool[i] : i \in 1..k})

(* File lists handed to the graph package: ascending or descending by path. *)
PathLists == UNION {{Ascending(k), Reverse(Ascending(k))} : k \in 0..Len(PathPool)}

(* At most max items in all, one fewer for each file beyond the second. *)
Budget(k, max) == IF k > 2 THEN max - (k - 2) ELSE max

(* The ways to cut a sequence of t items into k consecutive pieces. *)
Cuts(t, k) ==
    IF k = 0 THEN (IF t = 0 THEN {<<>>} ELSE {})
    ELSE {c \in [1..(k - 1) -> 0..t] : \A i \in 1..(k - 2) : c[i] <= c[i + 1]}

Piece(s, c, i) ==
    SubSeq(s, (IF i = 1 THEN 0 ELSE c[i - 1]) + 1, IF i > Len(c) THEN Len(s) ELSE c[i])

(* Tags as a caller of the graph package may hand them in. *)
DefTag(name) == [Name |-> name, Kind |-> Definition, SymbolKind |-> Function,
                 Enclosing |-> EmptyStr]
RefTag(name, encl) == [Name |-> name, Kind |-> Reference, SymbolKind |-> Function,
                       Enclosing |-> encl]

(* A field g of the class G, under its qualified name "G.g". *)
FieldTag == [Name |-> nG \o Dot \o <<103>>, Kind |-> Definition, SymbolKind |-> Field,
             Enclosing |-> EmptyStr]

TagPool == {DefTag(nF), DefTag(nG),
            RefTag(nF, EmptyStr), RefTag(nF, nG), RefTag(nG, nF)}

(* The class G. *)
ClassTag == [Name |-> nG, Kind |-> Definition, SymbolKind |-> Class, Enclosing |-> EmptyStr]

(* Tags of a repository with a class, a field of it and a function that    *)
(* calls the class and itself.                                             *)
FieldTagPool == {ClassTag, FieldTag, DefTag(nF),
                 RefTag(nF, nG), RefTag(nG, nF), RefTag(nF, nF)}

(* One or two files, ascending by path. *)
FieldPathLists == {Ascending(k) : k \in 1..(Len(PathPool) - 1)}

(* Two tags to a source line. *)
MakeFileInfo(path, tags) ==
    [Path |-> path, Language |-> "python", Rank |-> 0,
     Tags |-> [j \in 1..Len(tags) |->
                 [Name |-> tags[j].Name, Kind |-> tags[j].Kind,
                  SymbolKind |-> tags[j].SymbolKind, Line |-> (j + 1) \div 2,
                  File |-> path, Enclosing |-> tags[j].Enclosing]]]

FileInfosOf(ps, ts, c) == [i \in 1..Len(ps) |-> MakeFileInfo(ps[i], Piece(ts, c, i))]

(* Python syntax nodes. *)
Node(type, name) == [Type |-> type, Name |-> name]
ModuleCtx == <<Node("module", EmptyStr)>>
StmtCtx == <<Node("expression_statement", EmptyStr)>> \o ModuleCtx
InFunc(fn) == <<Node("expression_statement", EmptyStr), Node("block", EmptyStr),
                Node("function_definition", fn)>> \o ModuleCtx
ClassBody(c) == <<Node("block", EmptyStr), Node("class_definition", c)>> \o ModuleCtx
InMethod(c, fn) == <<Node("expression_statement", EmptyStr), Node("block", EmptyStr),
                     Node("function_definition", fn)>> \o ClassBody(c)

Match(capture, name, ctx) == [Capture |-> capture, HasName |-> TRUE, Name |-> name, Ctx |-> ctx]

MatchPool == {Match("definition.function", nF, ModuleCtx),
              Match("definition.function", nG, ModuleCtx),
              Match("definition.function", nF, ClassBody(nG)),
              Match("reference.call", nF, StmtCtx),
              Match("reference.call", nF, InFunc(nG)),
              Match("reference.call", nG, InMethod(nG, nF)),
              Match("reference.import", nF, ModuleCtx),
              Match("definition.field", nF, ClassBody(nG))}

(* One match to a source line. *)
MakeFileEntry(path, ms) ==
    [Path |-> path, Language |-> "python",
     Matches |-> [j \in 1..Len(ms) |->
                    [Capture |-> ms[j].Capture, HasName |-> ms[j].HasName,
                     Name |-> ms[j].Name, Row |-> j - 1, Ctx |-> ms[j].Ctx]]]

(* discover.Files returns the entries sorted by path. *)
DiscoveredLists == {Ascending(k) : k \in 1..Len(PathPool)}

FilesOf(ps, ms, c) == [i \in 1..Len(ps) |-> MakeFileEntry(ps[i], Piece(ms, c, i))]

EmptyMap == [Files |-> <<>>, Dependencies |-> <<>>, CallEdges |-> <<>>,
             CallSites |-> <<>>, Members |-> NoTags]

-----------------------------------------------------------------------------
(* Operations. *)

NoFlags ==
    /\ maxFiles = 0
    /\ symbolFilter = EmptyStr
    /\ fileFilter = EmptyStr
    /\ withMembers = FALSE
    /\ withTests = FALSE

(* The languages of the registry that the parsed files are written in. *)
Languages == {"python", "ruby"}

(* The zero value of model.FileInfo. *)
NoInfo == [Path |-> EmptyStr, Language |-> "", Tags |-> <<>>, Rank |-> 0]

(* No call site. *)
NoSite == [language |-> "", ctx |-> <<>>]

(* No cache file. *)
NoFile == [exists |-> FALSE, fresh |-> FALSE, data |-> <<>>]

(* run() has not started: nothing written, no cache file. *)
NoCommand ==
    /\ cachePath = FALSE
    /\ cache = NoFile
    /\ stdout = <<>>
    /\ runs = 0
    /\ callSite = NoSite
    /\ enclosing = EmptyStr
    /\ target = <<>>
    /\ inits = 0
    /\ firstResult = <<>>

(* parseFilesConcurrent is not running. *)
NoParse ==
    /\ env = [procs |-> 1, unreadable |-> {}, unparseable |-> {}, badQuery |-> {}]
    /\ numWorkers = 0
    /\ work = <<>>
    /\ workClosed = FALSE
    /\ sent = 0
    /\ results = <<>>
    /\ resultsClosed = FALSE
    /\ running = 0
    /\ wpc = <<>>
    /\ widx = <<>>
    /\ parsers = <<>>
    /\ created = {}
    /\ used = {}
    /\ compiles = [l \in Languages |-> 0]
    /\ warned = {}
    /\ indexed = <<>>
    /\ valid = <<>>
    /\ arrived = <<>>

(* A caller of the packages holds a list of FileInfos. *)
Init ==
    /\ pc = "parsed"
    /\ files = <<>>
    /\ \E ps \in PathLists : \E t \in 0..Budget(Len(ps), MaxTags) :
        \E ts \in [1..t -> TagPool], c \in Cuts(t, Len(ps)) :
            fileInfos = FileInfosOf(ps, ts, c)
    /\ given = fileInfos
    /\ before = EmptyMap
    /\ input = EmptyMap
    /\ aliased = FALSE
    /\ unfiltered = EmptyMap
    /\ deps = <<>>
    /\ callEdges = <<>>
    /\ rm = EmptyMap
    /\ NoFlags
    /\ NoParse
    /\ NoCommand

(* A caller of the packages holds FileInfos with classes and fields. *)
InitFields ==
    /\ pc = "parsed"
    /\ files = <<>>
    /\ \E ps \in FieldPathLists : \E t \in 0..Budget(Len(ps), MaxFieldTags) :
        \E ts \in [1..t -> FieldTagPool], c \in Cuts(t, Len(ps)) :
            fileInfos = FileInfosOf(ps, ts, c)
    /\ given = fileInfos
    /\ before = EmptyMap
    /\ input = EmptyMap
    /\ aliased = FALSE
    /\ unfiltered = EmptyMap
    /\ deps = <<>>
    /\ callEdges = <<>>
    /\ rm = EmptyMap
    /\ NoFlags
    /\ NoParse
    /\ NoCommand

(* A method "G.g", named like the field "G.g", and a second field "G.f". *)
MethodTag == [Name |-> nG \o Dot \o <<103>>, Kind |-> Definition, SymbolKind |-> Method,
              Enclosing |-> EmptyStr]

OtherFieldTag == [Name |-> nG \o Dot \o nF, Kind |-> Definition, SymbolKind |-> Field,
                  Enclosing |-> EmptyStr]

MemberTagPool == {ClassTag, FieldTag, OtherFieldTag, MethodTag, DefTag(nF)}

(* A caller of FilterBySymbol holds FileInfos with a class, its fields and *)
(* a method.                                                               *)
InitMembers ==
    /\ pc = "parsed"
    /\ files = <<>>
    /\ \E ps \in FieldPathLists : \E t \in 0..Budget(Len(ps), MaxFieldTags) :
        \E ts \in [1..t -> MemberTagPool], c \in Cuts(t, Len(ps)) :
            fileInfos = FileInfosOf(ps, ts, c)
    /\ given = fileInfos
    /\ before = EmptyMap
    /\ input = EmptyMap
    /\ aliased = FALSE
    /\ unfiltered = EmptyMap
    /\ deps = <<>>
    /\ callEdges = <<>>
    /\ rm = EmptyMap
    /\ NoFlags
    /\ NoParse
    /\ NoCommand

(* run() after discovery, test-file exclusion and the size filter. *)
InitRun ==
    /\ pc = "start"
    /\ \E ps \in DiscoveredLists : \E t \in 0..Budget(Len(ps), MaxMatches) :
        \E ms \in [1..t -> MatchPool], c \in Cuts(t, Len(ps)) :
            files = FilesOf(ps, ms, c)
    /\ fileInfos = <<>>
    /\ given = <<>>
    /\ before = EmptyMap
    /\ input = EmptyMap
    /\ aliased = FALSE
    /\ unfiltered = EmptyMap
    /\ deps = <<>>
    /\ callEdges = <<>>
    /\ rm = EmptyMap
    /\ NoFlags
    /\ NoParse
    /\ NoCommand

(* parseFilesConcurrent: one FileInfo per file, in the order of files. *)
ParseFiles ==
    /\ pc = "start"
    /\ fileInfos' = [i \in 1..Len(files) |->
                        [Path |-> files[i].Path, Language |-> files[i].Language,
                         Tags |-> ExtractTags(files[i].Matches, files[i].Path),
                         Rank |-> 0]]
    /\ given' = fileInfos'
    /\ pc' = "parsed"
    /\ UNCHANGED <<cmdVars, parVars, input, aliased, unfiltered, files, deps, callEdges, rm, maxFiles, symbolFilter, fileFilter,
                   withMembers, withTests, before>>

BuildGraphStep ==
    /\ pc = "parsed"
    /\ deps' = BuildGraph(fileInfos)
    /\ pc' = "graphed"
    /\ UNCHANGED <<cmdVars, parVars, input, aliased, unfiltered, files, fileInfos, callEdges, rm, maxFiles, symbolFilter, fileFilter,
                   withMembers, withTests, given, before>>

RankStep ==
    /\ pc = "graphed"
    /\ fileInfos' \in Rank(fileInfos, deps)
    /\ pc' = "ranked"
    /\ UNCHANGED <<cmdVars, parVars, input, aliased, unfiltered, files, deps, callEdges, rm, maxFiles, symbolFilter, fileFilter,
                   withMembers, withTests, given, before>>

(* BuildCallGraph and the RepoMap literal of run(). *)
BuildCallGraphStep ==
    /\ pc = "ranked"
    /\ callEdges' = BuildCallGraph(fileInfos)
    /\ rm' = [Files |-> fileInfos, Dependencies |-> deps, CallEdges |-> callEdges',
              CallSites |-> <<>>, Members |-> NoTags]
    /\ pc' = "built"
    /\ UNCHANGED <<cmdVars, parVars, input, aliased, unfiltered, files, fileInfos, deps, maxFiles, symbolFilter, fileFilter, withMembers,
                   withTests, given, before>>

(* A direct call rm.CallSites = BuildCallSites(fileInfos). *)
BuildCallSitesStep ==
    /\ pc = "built"
    /\ rm' = [rm EXCEPT !.CallSites = BuildCallSites(fileInfos)]
    /\ pc' = "sited"
    /\ UNCHANGED <<cmdVars, parVars, input, aliased, unfiltered, files, fileInfos, deps, callEdges, maxFiles, symbolFilter, fileFilter,
                   withMembers, withTests, given, before>>

(* A direct call of SelectFiles(rm, n). *)
SelectFilesStep ==
    /\ pc = "sited"
    /\ \E n \in (-1)..(Len(rm.Files) + 1) :
        /\ maxFiles' = n
        /\ rm' = SelectFiles(rm, n)
    /\ before' = rm
    /\ pc' = "done"
    /\ input' = rm
    /\ aliased' = (maxFiles' <= 0 \/ maxFiles' >= Len(rm.Files))
    /\ UNCHANGED <<cmdVars, parVars, unfiltered, files, fileInfos, deps, callEdges, symbolFilter, fileFilter,
                   withMembers, withTests, given>>

(* A direct call of FilterBySymbol(rm, substr, withMembers). *)
FilterBySymbolStep ==
    /\ pc = "sited"
    /\ \E s \in SymbolFilters \ {EmptyStr}, m \in BOOLEAN :
        /\ symbolFilter' = s
        /\ withMembers' = m
        /\ rm' = FilterBySymbol(rm, s, m)
    /\ before' = rm
    /\ pc' = "done"
    /\ input' = rm
    /\ aliased' = FALSE
    /\ UNCHANGED <<cmdVars, parVars, unfiltered, files, fileInfos, deps, callEdges, maxFiles, fileFilter, withTests,
                   given>>

(* A direct call of FilterByFile(rm, substr). *)
FilterByFileStep ==
    /\ pc = "sited"
    /\ \E p \in FileFilters \ {EmptyStr} :
        /\ fileFilter' = p
        /\ rm' = FilterByFile(rm, p)
    /\ before' = rm
    /\ pc' = "done"
    /\ input' = rm
    /\ aliased' = FALSE
    /\ UNCHANGED <<cmdVars, parVars, unfiltered, files, fileInfos, deps, callEdges, maxFiles, symbolFilter, withMembers,
                   withTests, given>>

(* A second call FilterByFile(rm, substr) on the result of the first. *)
FilterByFileAgainStep ==
    /\ pc = "done"
    /\ fileFilter # EmptyStr
    /\ rm' = FilterByFile(rm, fileFilter)
    /\ before' = rm
    /\ pc' = "again"
    /\ input' = rm
    /\ aliased' = FALSE
    /\ UNCHANGED <<cmdVars, parVars, unfiltered, files, fileInfos, deps, callEdges, maxFiles, symbolFilter, fileFilter,
                   withMembers, withTests, given>>

(* run(): `if maxFiles > 0 { rm = ranking.SelectFiles(rm, maxFiles) }` *)
RunSelectFiles ==
    /\ pc = "built"
    /\ files # <<>>
    /\ \E n \in 0..Len(rm.Files) :
        /\ maxFiles' = n
        /\ rm' = IF n > 0 THEN SelectFiles(rm, n) ELSE rm
    /\ before' = rm
    /\ pc' = "selected"
    /\ input' = (IF maxFiles' > 0 THEN rm ELSE input)
    /\ aliased' = (maxFiles' > 0 /\ maxFiles' >= Len(rm.Files))
    /\ UNCHANGED <<cmdVars, parVars, unfiltered, files, fileInfos, deps, callEdges, symbolFilter, fileFilter,
                   withMembers, withTests, given>>

(* run(): `if filterActive { rm.CallSites = graph.BuildCallSites(fileInfos) }` *)
RunCallSites ==
    /\ pc = "selected"
    /\ \E s \in SymbolFilters, p \in FileFilters, t \in BOOLEAN :
        /\ symbolFilter' = s
        /\ fileFilter' = p
        /\ withTests' = t
        /\ rm' = IF s # EmptyStr \/ p # EmptyStr \/ t
                 THEN [rm EXCEPT !.CallSites = BuildCallSites(fileInfos)]
                 ELSE rm
    /\ pc' = "filtering"
    /\ input' = (IF aliased THEN rm' ELSE input)
    /\ unfiltered' = rm'
    /\ UNCHANGED <<cmdVars, parVars, aliased, files, fileInfos, deps, callEdges, maxFiles, withMembers, given, before>>

(* run(): `if symbolFilter != "" { rm = ranking.FilterBySymbol(...) }` *)
RunFilterBySymbol ==
    /\ pc = "filtering"
    /\ rm' = IF symbolFilter # EmptyStr THEN FilterBySymbol(rm, symbolFilter, withMembers)
             ELSE rm
    /\ before' = rm
    /\ pc' = "symbolDone"
    /\ input' = (IF symbolFilter # EmptyStr THEN rm ELSE input)
    /\ aliased' = (symbolFilter = EmptyStr /\ aliased)
    /\ UNCHANGED <<cmdVars, parVars, unfiltered, files, fileInfos, deps, callEdges, maxFiles, symbolFilter, fileFilter,
                   withMembers, withTests, given>>

(* A run() that applies the --file filter to the map the filters started  *)
(* from, not to the result of the --symbol filter.                         *)
RunFilterByFileUnfiltered ==
    /\ pc = "symbolDone"
    /\ rm' = IF fileFilter # EmptyStr THEN FilterByFile(unfiltered, fileFilter) ELSE rm
    /\ before' = rm
    /\ pc' = "done"
    /\ input' = (IF fileFilter # EmptyStr THEN rm ELSE input)
    /\ aliased' = (fileFilter = EmptyStr /\ aliased)
    /\ UNCHANGED <<cmdVars, parVars, unfiltered, files, fileInfos, deps, callEdges, maxFiles, symbolFilter,
                   fileFilter, withMembers, withTests, given>>

(* run(): `if fileFilter != "" { rm = ranking.FilterByFile(rm, fileFilter) }` *)
RunFilterByFile ==
    /\ pc = "symbolDone"
    /\ rm' = IF fileFilter # EmptyStr THEN FilterByFile(rm, fileFilter) ELSE rm
    /\ before' = rm
    /\ pc' = "done"
    /\ input' = (IF fileFilter # EmptyStr THEN rm ELSE input)
    /\ aliased' = (fileFilter = EmptyStr /\ aliased)
    /\ UNCHANGED <<cmdVars, parVars, unfiltered, files, fileInfos, deps, callEdges, maxFiles, symbolFilter, fileFilter,
                   withMembers, withTests, given>>

Next ==
    \/ BuildGraphStep
    \/ RankStep
    \/ BuildCallGraphStep
    \/ BuildCallSitesStep
    \/ SelectFilesStep
    \/ FilterBySymbolStep
    \/ FilterByFileStep
    \/ FilterByFileAgainStep

NextRun ==
    \/ ParseFiles
    \/ BuildGraphStep
    \/ RankStep
    \/ BuildCallGraphStep
    \/ RunSelectFiles
    \/ RunCallSites
    \/ RunFilterBySymbol
    \/ RunFilterByFile

Spec == Init /\ [][Next]_vars

SpecRun == InitRun /\ [][NextRun]_vars

SpecFields == InitFields /\ [][Next]_vars

SpecMembers == InitMembers /\ [][Next]_vars

-----------------------------------------------------------------------------
(* parseFilesConcurrent, goroutine by goroutine. *)

(* The k paths "a", "b", "c", ... in the order discovery returns them. *)
ParsePaths(k) == [i \in 1..k |-> <<96 + i>>]

(* A Python file holds one function definition, a Ruby file is empty. *)
ParseEntry(path, language) ==
    IF language = "python"
    THEN MakeFileEntry(path, <<Match("definition.function", nF, ModuleCtx)>>)
    ELSE [Path |-> path, Language |-> language, Matches |-> <<>>]

Min(a, b) == IF a < b THEN a ELSE b

(* The languages of k files: Python files first, then Ruby files. *)
LanguageLists(k) == {[i \in 1..k |-> IF i <= j THEN "python" ELSE "ruby"] : j \in 0..k}

(* No failure, or the failure of one element of S. *)
Failures(S) == {{}} \cup {{x} : x \in S}

(* The files os.ReadFile fails on, the files parser.ParseCtx fails on and  *)
(* the languages GetTagQuery fails on: a run has at most one failing file, *)
(* or one language whose files all fail.                                   *)
FileFailures(k) ==
    {[unreadable |-> u, unparseable |-> {}, badQuery |-> {}] : u \in Failures(1..k)}
    \cup {[unreadable |-> {}, unparseable |-> u, badQuery |-> {}] : u \in Failures(1..k)}
    \cup {[unreadable |-> {}, unparseable |-> {}, badQuery |-> b] : b \in Failures({"ruby"})}

(* parseFilesConcurrent has made its channels and started its workers. *)
InitParse ==
    /\ pc = "sending"
    /\ \E k \in 0..MaxParseFiles :
        /\ \E ls \in LanguageLists(k) :
              files = [i \in 1..k |-> ParseEntry(ParsePaths(k)[i], ls[i])]
        /\ \E procs \in 1..MaxProcs, u \in FileFailures(k) :
              env = [procs |-> procs, unreadable |-> u.unreadable,
                     unparseable |-> u.unparseable, badQuery |-> u.badQuery]
    /\ numWorkers = Min(env.procs, Len(files))
    /\ work = <<>>
    /\ workClosed = FALSE
    /\ sent = 0
    /\ results = <<>>
    /\ resultsClosed = FALSE
    /\ running = numWorkers
    /\ wpc = [w \in 1..numWorkers |-> "recv"]
    /\ widx = [w \in 1..numWorkers |-> 0]
    /\ parsers = [w \in 1..numWorkers |-> [l \in Languages |-> 0]]
    /\ created = {}
    /\ used = {}
    /\ compiles = [l \in Languages |-> 0]
    /\ warned = {}
    /\ indexed = [i \in 1..Len(files) |-> NoInfo]
    /\ valid = [i \in 1..Len(files) |-> FALSE]
    /\ arrived = <<>>
    /\ fileInfos = <<>>
    /\ given = <<>>
    /\ before = EmptyMap
    /\ input = EmptyMap
    /\ aliased = FALSE
    /\ unfiltered = EmptyMap
    /\ deps = <<>>
    /\ callEdges = <<>>
    /\ rm = EmptyMap
    /\ NoFlags
    /\ NoCommand

(* close(work) left out: main goes on to collect with work still open. *)
MainCloseForgotten ==
    /\ pc = "sending"
    /\ sent = Len(files)
    /\ pc' = "collecting"
    /\ UNCHANGED <<arrived, files, fileInfos, given, pipeVars, cmdVars, env, numWorkers, work, sent, results,
                   workClosed, resultsClosed, running, wpc, widx, parsers, created, used,
                   compiles, warned, indexed, valid>>

(* `for i := range files { work <- i }`: the send blocks while the buffer  *)
(* of work, made with room for len(files), is full.                        *)
MainSend ==
    /\ pc = "sending"
    /\ sent < Len(files)
    /\ Len(work) < Len(files)
    /\ work' = Append(work, sent + 1)
    /\ sent' = sent + 1
    /\ UNCHANGED <<arrived, pc, files, fileInfos, given, pipeVars, cmdVars, env, numWorkers, workClosed, results,
                   resultsClosed, running, wpc, widx, parsers, created, used, compiles,
                   warned, indexed, valid>>

(* close(work) *)
MainClose ==
    /\ pc = "sending"
    /\ sent = Len(files)
    /\ workClosed' = TRUE
    /\ pc' = "collecting"
    /\ UNCHANGED <<arrived, files, fileInfos, given, pipeVars, cmdVars, env, numWorkers, work, sent, results,
                   resultsClosed, running, wpc, widx, parsers, created, used, compiles,
                   warned, indexed, valid>>

(* `for idx := range work`: a worker takes the next index. *)
WorkerRecv(w) ==
    /\ wpc[w] = "recv"
    /\ work # <<>>
    /\ widx' = [widx EXCEPT ![w] = Head(work)]
    /\ work' = Tail(work)
    /\ wpc' = [wpc EXCEPT ![w] = "have"]
    /\ UNCHANGED <<arrived, pc, files, fileInfos, given, pipeVars, cmdVars, env, numWorkers, workClosed, sent,
                   results, resultsClosed, running, parsers, created, used, compiles,
                   warned, indexed, valid>>

(* The range over the closed, drained channel ends: wg.Done(). *)
WorkerExit(w) ==
    /\ wpc[w] = "recv"
    /\ work = <<>>
    /\ workClosed
    /\ wpc' = [wpc EXCEPT ![w] = "exit"]
    /\ running' = running - 1
    /\ UNCHANGED <<arrived, pc, files, fileInfos, given, pipeVars, cmdVars, env, numWorkers, work, workClosed,
                   sent, results, resultsClosed, widx, parsers, created, used, compiles,
                   warned, indexed, valid>>

(* Language.NewParser: a fresh parser, made by worker w.  Its identity is  *)
(* the worker's number plus numWorkers for each parser w made before.       *)
NewParser(w, language) ==
    [id |-> numWorkers * Cardinality({c \in created : c.worker = w}) + w,
     worker |-> w, language |-> language]

(* A worker that never looks into its parsers map. *)
WorkerGetParserNoCache(w) ==
    LET language == files[widx[w]].Language
    IN /\ wpc[w] = "have"
       /\ compiles' = [compiles EXCEPT ![language] = IF @ = 0 THEN 1 ELSE @]
       /\ IF language \in env.badQuery
          THEN /\ warned' = warned \cup {widx[w]}
               /\ wpc' = [wpc EXCEPT ![w] = "recv"]
               /\ widx' = [widx EXCEPT ![w] = 0]
               /\ UNCHANGED <<parsers, created>>
          ELSE /\ created' = created \cup {NewParser(w, language)}
               /\ parsers' = [parsers EXCEPT ![w][language] = NewParser(w, language).id]
               /\ wpc' = [wpc EXCEPT ![w] = "parse"]
               /\ UNCHANGED <<warned, widx>>
       /\ UNCHANGED <<arrived, pc, files, fileInfos, given, pipeVars, cmdVars, env, numWorkers, work,
                      workClosed, sent, results, resultsClosed, running, used,
                      indexed, valid>>

(* `pp, ok := parsers[f.Language]`; on a miss GetTagQuery, whose queryOnce  *)
(* compiles the query the first time, and NewParser.                       *)
WorkerGetParser(w) ==
    LET language == files[widx[w]].Language
    IN /\ wpc[w] = "have"
       /\ IF parsers[w][language] # 0
          THEN /\ wpc' = [wpc EXCEPT ![w] = "parse"]
               /\ UNCHANGED <<parsers, created, compiles, warned, widx>>
          ELSE /\ compiles' = [compiles EXCEPT ![language] = IF @ = 0 THEN 1 ELSE @]
               /\ IF language \in env.badQuery
                  THEN /\ warned' = warned \cup {widx[w]}
                       /\ wpc' = [wpc EXCEPT ![w] = "recv"]
                       /\ widx' = [widx EXCEPT ![w] = 0]
                       /\ UNCHANGED <<parsers, created>>
                  ELSE /\ created' = created \cup {NewParser(w, language)}
                       /\ parsers' = [parsers EXCEPT ![w][language] =
                                          NewParser(w, language).id]
                       /\ wpc' = [wpc EXCEPT ![w] = "parse"]
                       /\ UNCHANGED <<warned, widx>>
       /\ UNCHANGED <<arrived, pc, files, fileInfos, given, pipeVars, cmdVars, env, numWorkers, work,
                      workClosed, sent, results, resultsClosed, running, used,
                      indexed, valid>>

(* os.ReadFile, parse.ExtractTags with the worker's parser, `results <-`:  *)
(* the send blocks while the buffer of results, made with room for         *)
(* len(files), is full.                                                    *)
WorkerParse(w) ==
    LET f == files[widx[w]]
    IN /\ wpc[w] = "parse"
       /\ IF widx[w] \in env.unreadable
          THEN /\ warned' = warned \cup {widx[w]}
               /\ UNCHANGED <<used, results>>
          ELSE /\ Len(results) < Len(files)
               /\ used' = used \cup {[parser |-> parsers[w][f.Language], worker |-> w,
                                      index |-> widx[w]]}
               /\ results' = Append(results,
                     [index |-> widx[w], ok |-> TRUE,
                      info |-> [Path |-> f.Path, Language |-> f.Language,
                                Tags |-> IF widx[w] \in env.unparseable
                                         THEN NoTags
                                         ELSE ExtractTags(f.Matches, f.Path),
                                Rank |-> 0]])
               /\ UNCHANGED warned
       /\ wpc' = [wpc EXCEPT ![w] = "recv"]
       /\ widx' = [widx EXCEPT ![w] = 0]
       /\ UNCHANGED <<arrived, pc, files, fileInfos, given, pipeVars, cmdVars, env, numWorkers, work,
                      workClosed, sent, resultsClosed, running, parsers, created,
                      compiles, indexed, valid>>

(* `go func() { wg.Wait(); close(results) }()` *)
CloseResults ==
    /\ pc = "collecting"
    /\ running = 0
    /\ ~resultsClosed
    /\ resultsClosed' = TRUE
    /\ UNCHANGED <<arrived, pc, files, fileInfos, given, pipeVars, cmdVars, env, numWorkers, work, workClosed,
                   sent, results, running, wpc, widx, parsers, created, used, compiles,
                   warned, indexed, valid>>

(* A collector that stores each result in the next free slot. *)
MainCollectInArrivalOrder ==
    LET slot == Cardinality({i \in 1..Len(valid) : valid[i]}) + 1
    IN /\ pc = "collecting"
       /\ results # <<>>
       /\ indexed' = [indexed EXCEPT ![slot] = Head(results).info]
       /\ valid' = [valid EXCEPT ![slot] = Head(results).ok]
       /\ results' = Tail(results)
       /\ arrived' = Append(arrived, Head(results).index)
       /\ UNCHANGED <<pc, files, fileInfos, given, pipeVars, cmdVars, env, numWorkers, work,
                      workClosed, sent, resultsClosed, running, wpc, widx, parsers, created,
                      used, compiles, warned>>

(* `for r := range results { indexed[r.index] = r.info; valid[r.index] = r.ok }` *)
MainCollect ==
    /\ pc = "collecting"
    /\ results # <<>>
    /\ indexed' = [indexed EXCEPT ![Head(results).index] = Head(results).info]
    /\ valid' = [valid EXCEPT ![Head(results).index] = Head(results).ok]
    /\ results' = Tail(results)
    /\ arrived' = Append(arrived, Head(results).index)
    /\ UNCHANGED <<pc, files, fileInfos, given, pipeVars, cmdVars, env, numWorkers, work, workClosed,
                   sent, resultsClosed, running, wpc, widx, parsers, created, used,
                   compiles, warned>>

(* The valid entries of indexed, in index order. *)
Assemble(idx, ok) ==
    LET kept == SelectSeq([i \in 1..Len(ok) |-> i], LAMBDA i : ok[i])
    IN [j \in 1..Len(kept) |-> idx[kept[j]]]

(* The range over results ends; fileInfos is built from indexed and valid. *)
MainAssemble ==
    /\ pc = "collecting"
    /\ results = <<>>
    /\ resultsClosed
    /\ fileInfos' = Assemble(indexed, valid)
    /\ given' = fileInfos'
    /\ pc' = "parsed"
    /\ UNCHANGED <<files, pipeVars, parVars, cmdVars>>

NextParse ==
    \/ MainSend
    \/ MainClose
    \/ \E w \in 1..numWorkers : WorkerRecv(w)
    \/ \E w \in 1..numWorkers : WorkerGetParser(w)
    \/ \E w \in 1..numWorkers : WorkerParse(w)
    \/ \E w \in 1..numWorkers : WorkerExit(w)
    \/ CloseResults
    \/ MainCollect
    \/ MainAssemble

SpecParse == InitParse /\ [][NextParse]_vars

-----------------------------------------------------------------------------
(* The language adapters on the ancestors of a call site. *)

(* The scopes a call can stand in, given by the nodes from the body of the *)
(* scope up to the node that opens it.                                     *)
PythonScopes ==
    {<<Node("lambda", EmptyStr), Node("expression_statement", EmptyStr)>>,
     <<Node("block", EmptyStr), Node("function_definition", nF)>>,
     <<Node("block", EmptyStr), Node("function_definition", nF),
       Node("decorated_definition", EmptyStr)>>,
     <<Node("block", EmptyStr), Node("class_definition", nG)>>}

RubyScopes ==
    {<<Node("do_block", EmptyStr), Node("call", EmptyStr)>>,
     <<Node("block", EmptyStr), Node("lambda", EmptyStr)>>,
     <<Node("method", nF)>>,
     <<Node("singleton_method", nF)>>,
     <<Node("class", nG)>>,
     <<Node("module", nG)>>}

ScopesOf(language) == IF language = "python" THEN PythonScopes ELSE RubyScopes

(* The node types of an anonymous function: a Python lambda, a Ruby block  *)
(* or lambda.                                                              *)
ClosureTypes == {"lambda", "do_block"}

(* The node types of a named function or method. *)
NamedDefTypes == {"function_definition", "method", "singleton_method"}

RECURSIVE Concat(_)
Concat(ss) == IF ss = <<>> THEN <<>> ELSE Head(ss) \o Concat(Tail(ss))

(* The ancestors of a call that stands in the scopes ss, innermost first:  *)
(* a Python call outside a lambda is the expression of a statement.        *)
Ancestors(language, ss) ==
    (IF language = "python" /\ (ss = <<>> \/ ss[1][1].Type # "lambda")
     THEN <<Node("expression_statement", EmptyStr)>> ELSE <<>>)
    \o Concat(ss)
    \o <<Node(IF language = "python" THEN "module" ELSE "program", EmptyStr)>>

(* ExtractTags found a reference.call match at some call site. *)
InitSite ==
    /\ pc = "site"
    /\ \E language \in Languages, k \in 0..MaxScopes :
        \E ss \in [1..k -> ScopesOf(language)] :
            callSite = [language |-> language, ctx |-> Ancestors(language, ss)]
    /\ enclosing = EmptyStr
    /\ target = <<>>
    /\ inits = 0
    /\ firstResult = <<>>
    /\ cachePath = FALSE
    /\ cache = NoFile
    /\ stdout = <<>>
    /\ runs = 0
    /\ files = <<>>
    /\ fileInfos = <<>>
    /\ given = <<>>
    /\ before = EmptyMap
    /\ input = EmptyMap
    /\ aliased = FALSE
    /\ unfiltered = EmptyMap
    /\ deps = <<>>
    /\ callEdges = <<>>
    /\ rm = EmptyMap
    /\ NoFlags
    /\ NoParse

(* ExtractTags: tag.Enclosing = l.FindEnclosingDef(defNode, source) *)
FindEnclosingDefStep ==
    /\ pc = "site"
    /\ enclosing' = FindEnclosingDef(callSite.language, callSite.ctx)
    /\ pc' = "resolved"
    /\ UNCHANGED <<files, fileInfos, given, pipeVars, parVars, cacheVars, initVars, callSite>>

SpecSite == InitSite /\ [][FindEnclosingDefStep]_vars

-----------------------------------------------------------------------------
(* `repoguide init`: runInit and applySection.  A file content is a        *)
(* sequence of pieces: the two sentinel comments, a line break, the body   *)
(* of the generated section, and any other text.                           *)

sentinelStart == "<!-- repoguide:start -->"
sentinelEnd == "<!-- repoguide:end -->"

(* generateSection: sentinelStart + "\n" + body + "\n" + sentinelEnd *)
generateSection == <<sentinelStart, "\n", "body", "\n", sentinelEnd>>

(* strings.Index(content, piece), counted from 1; 0 when absent. *)
Index(content, piece) ==
    IF \E i \in 1..Len(content) : content[i] = piece
    THEN CHOOSE i \in 1..Len(content) :
            content[i] = piece /\ \A j \in 1..(i - 1) : content[j] # piece
    ELSE 0

(* applySection: replace the sentinel block, or append the section after a *)
(* blank line.                                                             *)
applySection(content, section) ==
    LET start == Index(content, sentinelStart)
        end == Index(content, sentinelEnd)
        ended == IF Len(content) > 0 /\ content[Len(content)] # "\n"
                 THEN Append(content, "\n") ELSE content
    IN IF start >= 1 /\ end > start
       THEN SubSeq(content, 1, start - 1) \o section \o SubSeq(content, end + 1, Len(content))
       ELSE ended \o <<"\n">> \o section \o <<"\n">>

(* The file at path holds some pieces of content, or does not exist        *)
(* (empty).                                                                *)
InitInit ==
    /\ pc = "init"
    /\ \E k \in 0..MaxContent : target \in [1..k -> {sentinelStart, sentinelEnd, "\n", "text"}]
    /\ inits = 0
    /\ firstResult = <<>>
    /\ callSite = NoSite
    /\ enclosing = EmptyStr
    /\ cachePath = FALSE
    /\ cache = NoFile
    /\ stdout = <<>>
    /\ runs = 0
    /\ files = <<>>
    /\ fileInfos = <<>>
    /\ given = <<>>
    /\ before = EmptyMap
    /\ input = EmptyMap
    /\ aliased = FALSE
    /\ unfiltered = EmptyMap
    /\ deps = <<>>
    /\ callEdges = <<>>
    /\ rm = EmptyMap
    /\ NoFlags
    /\ NoParse

(* runInit with a path: --dry-run prints the updated content, otherwise    *)
(* the file is written unless it is already up to date.                    *)
RunInit ==
    /\ pc = "init"
    /\ inits < MaxInits
    /\ \E dryRun \in BOOLEAN :
        LET updated == applySection(target, generateSection)
        IN IF dryRun
           THEN /\ stdout' = updated
                /\ UNCHANGED <<target, inits, firstResult>>
           ELSE /\ target' = updated
                /\ inits' = inits + 1
                /\ firstResult' = (IF inits = 0 THEN updated ELSE firstResult)
                /\ UNCHANGED stdout
    /\ UNCHANGED <<pc, files, fileInfos, given, pipeVars, parVars, cachePath, cache, runs,
                   siteVars>>

SpecInit == InitInit /\ [][RunInit]_vars

-----------------------------------------------------------------------------
(* run() with its cache file, one run after another on the same repository. *)

(* One table of the output: formatTabular(name, columns, rows). *)
Table(name, rows) == [name |-> name, rows |-> rows]

(* The "\n" that follows the output in the cache file. *)
Newline == Table("\n", <<>>)

(* fmt.Sprintf("%.4f", rank) *)
FormatRank(rank) == FDiv(rank, Scale \div 10000)

(* toon.Encode: the files, symbols, dependencies and calls tables, and the *)
(* callsites table when rm.CallSites is not empty.                         *)
Encode(m) ==
    LET flat == Flatten(m.Files)
        defs == SelectSeq(flat, LAMBDA x : x.Tag.Kind = Definition)
    IN <<Table("files", [i \in 1..Len(m.Files) |->
                    <<m.Files[i].Path, m.Files[i].Language, FormatRank(m.Files[i].Rank)>>]),
         Table("symbols", [i \in 1..Len(defs) |->
                    <<defs[i].Path, defs[i].Tag.Name, defs[i].Tag.SymbolKind,
                      defs[i].Tag.Line>>]),
         Table("dependencies", [i \in 1..Len(m.Dependencies) |->
                    <<m.Dependencies[i].Source, m.Dependencies[i].Target,
                      m.Dependencies[i].Symbols>>]),
         Table("calls", [i \in 1..Len(m.CallEdges) |->
                    <<m.CallEdges[i].Caller, m.CallEdges[i].Callee>>])>>
       \o (IF Len(m.CallSites) > 0
           THEN <<Table("callsites", [i \in 1..Len(m.CallSites) |->
                      <<m.CallSites[i].Caller, m.CallSites[i].Callee,
                        m.CallSites[i].File, m.CallSites[i].Line>>])>>
           ELSE <<>>)

(* strings.TrimRight(data, "\n") *)
RECURSIVE TrimRightNewline(_)
TrimRightNewline(data) ==
    IF data # <<>> /\ data[Len(data)] = Newline
    THEN TrimRightNewline(SubSeq(data, 1, Len(data) - 1))
    ELSE data

(* filterActive := symbolFilter != "" || fileFilter != "" || withTests *)
FilterActive(s, p, t) == s # EmptyStr \/ p # EmptyStr \/ t

(* cacheIsFresh: the cache file exists and every file is older than it. *)
cacheIsFresh == cache.exists /\ cache.fresh

(* The FileInfos parseFilesConcurrent returns when no file fails. *)
ParsedFiles(fs) ==
    [i \in 1..Len(fs) |->
        [Path |-> fs[i].Path, Language |-> fs[i].Language,
         Tags |-> ExtractTags(fs[i].Matches, fs[i].Path), Rank |-> 0]]

(* run() from the RepoMap literal to the filters, for ranked fileInfos. *)
RunMap(ranked, ds, n, s, p, t) ==
    LET built == [Files |-> ranked, Dependencies |-> ds,
                  CallEdges |-> BuildCallGraph(ranked), CallSites |-> <<>>,
                  Members |-> NoTags]
        selected == IF n > 0 THEN SelectFiles(built, n) ELSE built
        sited == IF FilterActive(s, p, t)
                 THEN [selected EXCEPT !.CallSites = BuildCallSites(ranked)]
                 ELSE selected
        bySymbol == IF s # EmptyStr THEN FilterBySymbol(sited, s, FALSE) ELSE sited
    IN IF p # EmptyStr THEN FilterByFile(bySymbol, p) ELSE bySymbol

(* The repositories of the cache runs: one or two files. *)
CacheRepos ==
    UNION {{FilesOf(Ascending(k), ms, c) : ms \in [1..t -> MatchPool], c \in Cuts(t, k)} :
              k \in 1..2, t \in 0..MaxCacheMatches}

(* No run() has started; there is no cache file. *)
InitCache ==
    /\ pc = "idle"
    /\ files \in CacheRepos
    /\ fileInfos = <<>>
    /\ given = <<>>
    /\ before = EmptyMap
    /\ input = EmptyMap
    /\ aliased = FALSE
    /\ unfiltered = EmptyMap
    /\ deps = <<>>
    /\ callEdges = <<>>
    /\ rm = EmptyMap
    /\ NoFlags
    /\ NoParse
    /\ NoCommand

(* run() from its flags to the cache check: a fresh cache is written to    *)
(* stdout when no filter flag is active, and run() returns.                *)
RunStart ==
    /\ pc \in {"idle", "served", "finished"}
    /\ runs < MaxRuns
    /\ runs' = runs + 1
    /\ \E c, t \in BOOLEAN, s \in SymbolFilters, p \in FileFilters, n \in 0..Len(files) :
        /\ cachePath' = c
        /\ withTests' = t
        /\ symbolFilter' = s
        /\ fileFilter' = p
        /\ maxFiles' = n
        /\ IF ~FilterActive(s, p, t) /\ c /\ cacheIsFresh
           THEN /\ stdout' = TrimRightNewline(cache.data)
                /\ pc' = "served"
           ELSE /\ stdout' = <<>>
                /\ pc' = "miss"
    /\ fileInfos' = <<>>
    /\ given' = <<>>
    /\ deps' = <<>>
    /\ callEdges' = <<>>
    /\ rm' = EmptyMap
    /\ UNCHANGED <<files, withMembers, before, input, aliased, unfiltered, parVars, cache,
                   siteVars, initVars>>

(* run() past the cache check: the pipeline, toon.Encode, the cache write  *)
(* (skipped when a filter flag is active) and writeOutput.                 *)
RunPipeline ==
    /\ pc = "miss"
    /\ \E ranked \in Rank(ParsedFiles(files), BuildGraph(ParsedFiles(files))) :
        /\ given' = ParsedFiles(files)
        /\ fileInfos' = ranked
        /\ deps' = BuildGraph(given')
        /\ callEdges' = BuildCallGraph(ranked)
        /\ rm' = RunMap(ranked, deps', maxFiles, symbolFilter, fileFilter, withTests)
    /\ stdout' = Encode(rm')
    /\ cache' = IF cachePath /\ ~FilterActive(symbolFilter, fileFilter, withTests)
                THEN [exists |-> TRUE, fresh |-> TRUE, data |-> Append(stdout', Newline)]
                ELSE cache
    /\ pc' = "finished"
    /\ UNCHANGED <<files, maxFiles, symbolFilter, fileFilter, withMembers, withTests,
                   before, input, aliased, unfiltered, parVars, cachePath, runs, siteVars,
                   initVars>>

(* Between two runs a source file is saved again: its modification time   *)
(* is no longer before that of the cache file.                             *)
TouchFile ==
    /\ pc \in {"served", "finished"}
    /\ cacheIsFresh
    /\ cache' = [cache EXCEPT !.fresh = FALSE]
    /\ UNCHANGED <<pc, files, fileInfos, given, pipeVars, parVars, cachePath, stdout, runs,
                   siteVars, initVars>>

NextCache ==
    \/ RunStart
    \/ RunPipeline
    \/ TouchFile

SpecCache == InitCache /\ [][NextCache]_vars

-----------------------------------------------------------------------------
(* Properties of BuildGraph. *)

Names == {nF, nG}

FileOf(path) == CHOOSE i \in 1..Len(fileInfos) : fileInfos[i].Path = path

HasTag(path, kind, name) ==
    \E i \in 1..Len(fileInfos) :
        /\ fileInfos[i].Path = path
        /\ \E j \in 1..Len(fileInfos[i].Tags) :
            fileInfos[i].Tags[j].Kind = kind /\ fileInfos[i].Tags[j].Name = name

InputPaths == {fileInfos[i].Path : i \in 1..Len(fileInfos)}

(* C1: BuildGraph never returns a Dependency whose Source equals its       *)
(* Target, also when a file both defines and references a name that other  *)
(* files define as well.                                                    *)
C1_NoSelfEdge ==
    pc # "parsed" => \A i \in 1..Len(deps) : deps[i].Source # deps[i].Target

(* A file references a name it defines itself and another file defines too. *)
C1_Witness ==
    /\ pc = "graphed"
    /\ \E a, b \in InputPaths, n \in Names :
        /\ a # b
        /\ HasTag(a, Reference, n) /\ HasTag(a, Definition, n) /\ HasTag(b, Definition, n)
        /\ \E i \in 1..Len(deps) : deps[i].Source = a /\ deps[i].Target = b

(* C2: BuildGraph holds a Dependency A -> B naming symbol s exactly when    *)
(* A and B are different files, A has a Reference tag named s and B has a   *)
(* Definition tag named s; a reference no file defines contributes nothing. *)
C2_EdgeIffRefAndDef ==
    pc # "parsed" =>
        /\ \A a, b \in InputPaths, n \in Names :
            (\E i \in 1..Len(deps) :
                /\ deps[i].Source = a /\ deps[i].Target = b
                /\ \E j \in 1..Len(deps[i].Symbols) : deps[i].Symbols[j] = n)
            <=> (a # b /\ HasTag(a, Reference, n) /\ HasTag(b, Definition, n))
        /\ \A i \in 1..Len(deps) :
            /\ deps[i].Source \in InputPaths /\ deps[i].Target \in InputPaths
            /\ \A j \in 1..Len(deps[i].Symbols) : deps[i].Symbols[j] \in Names

(* One file references a name no file defines and a name another defines. *)
C2_Witness ==
    /\ pc = "graphed"
    /\ deps # <<>>
    /\ \E a \in InputPaths, n \in Names :
        /\ HasTag(a, Reference, n)
        /\ \A b \in InputPaths : ~HasTag(b, Definition, n)

(* Index of the first Reference tag called name in the file at path, 0 if none. *)
FirstMention(path, name) ==
    LET tags == fileInfos[FileOf(path)].Tags
        at == {j \in 1..Len(tags) : tags[j].Kind = Reference /\ tags[j].Name = name}
    IN IF at = {} THEN 0 ELSE CHOOSE j \in at : \A k \in at : j <= k

(* C3: the Symbols of every Dependency are non-empty, hold no duplicate and *)
(* stand in the order in which the source file's Reference tags first       *)
(* mention them.                                                            *)
C3_SymbolsOrdered ==
    pc # "parsed" =>
        \A i \in 1..Len(deps) :
            LET syms == deps[i].Symbols IN
            /\ Len(syms) > 0
            /\ \A j, k \in 1..Len(syms) : j # k => syms[j] # syms[k]
            /\ \A j \in 1..Len(syms) : FirstMention(deps[i].Source, syms[j]) > 0
            /\ \A j, k \in 1..Len(syms) :
                j < k => FirstMention(deps[i].Source, syms[j])
                            < FirstMention(deps[i].Source, syms[k])

(* An edge whose two symbols stand in mention order, not in name order. *)
C3_Witness ==
    /\ pc = "graphed"
    /\ \E i \in 1..Len(deps) :
        /\ Len(deps[i].Symbols) = 2
        /\ StrLess(deps[i].Symbols[2], deps[i].Symbols[1])

-----------------------------------------------------------------------------
(* Properties of BuildCallGraph and BuildCallSites. *)

AllTags == Flatten(fileInfos)

DefinedSomewhere(name) ==
    \E k \in 1..Len(AllTags) : AllTags[k].Tag.Kind = Definition /\ AllTags[k].Tag.Name = name

CallGraphBuilt == pc \notin {"start", "parsed", "graphed", "ranked"}

KnownRefs == {k \in 1..Len(AllTags) :
                AllTags[k].Tag.Kind = Reference /\ DefinedSomewhere(AllTags[k].Tag.Name)}

-----------------------------------------------------------------------------
(* Properties of the pipeline of run(). *)

(* The match a CallSite stems from: its file's match on the site's line. *)
MatchOf(site) ==
    LET i == CHOOSE k \in 1..Len(files) : files[k].Path = site.File
    IN files[i].Matches[site.Line]

InFunctionBody(ctx) == \E k \in 1..Len(ctx) : ctx[k].Type = "function_definition"

(* C6: in the CallSites of the pipeline (ExtractTags, then BuildCallSites)  *)
(* a CallSite has the Caller "<import>" exactly when it stems from a       *)
(* module-level import reference, and a call inside a function body never  *)
(* gives a CallSite whose Caller is "<import>".                            *)
C6_ImportSentinel ==
    pc = "filtering" =>
        \A i \in 1..Len(rm.CallSites) :
            LET site == rm.CallSites[i] IN
            /\ site.Caller = ImportCaller
                <=> (MatchOf(site).Capture = "reference.import"
                     /\ ~InFunctionBody(MatchOf(site).Ctx))
            /\ (MatchOf(site).Capture = "reference.call" /\ InFunctionBody(MatchOf(site).Ctx))
                => site.Caller # ImportCaller

-----------------------------------------------------------------------------
(* Properties of the order of the result lists. *)

(* Lexicographic order of two tuples of strings. *)
RECURSIVE TupleLess(_, _)
TupleLess(x, y) ==
    IF x = <<>> THEN FALSE
    ELSE IF Head(x) # Head(y) THEN StrLess(Head(x), Head(y))
    ELSE TupleLess(Tail(x), Tail(y))

DepsAscending(ds) ==
    \A i \in 1..(Len(ds) - 1) :
        TupleLess(<<ds[i].Source, ds[i].Target>>, <<ds[i + 1].Source, ds[i + 1].Target>>)

CallEdgesAscending(es) ==
    \A i \in 1..(Len(es) - 1) :
        TupleLess(<<es[i].Caller, es[i].Callee>>, <<es[i + 1].Caller, es[i + 1].Callee>>)

SiteBefore(x, y) ==
    \/ TupleLess(<<x.Caller, x.Callee, x.File>>, <<y.Caller, y.Callee, y.File>>)
    \/ (<<x.Caller, x.Callee, x.File>> = <<y.Caller, y.Callee, y.File>> /\ x.Line < y.Line)

CallSitesNonDecreasing(ss) == \A i \in 1..(Len(ss) - 1) : ~SiteBefore(ss[i + 1], ss[i])

(* C7: in every output RepoMap, from the builders and after SelectFiles,   *)
(* FilterBySymbol or FilterByFile, Dependencies ascend strictly by (source, *)
(* target), CallEdges ascend strictly by (caller, callee) and CallSites do *)
(* not decrease by (caller, callee, file, line).                           *)
C7_ListsSorted ==
    /\ DepsAscending(deps) /\ DepsAscending(rm.Dependencies)
    /\ CallEdgesAscending(callEdges) /\ CallEdgesAscending(rm.CallEdges)
    /\ CallSitesNonDecreasing(rm.CallSites)

(* A projected map that keeps two CallEdges, a Dependency and two CallSites *)
(* of which the tags came in descending order.                             *)
C7_Witness ==
    /\ pc = "done"
    /\ Len(rm.CallEdges) >= 2
    /\ Len(rm.CallSites) >= 2
    /\ Len(rm.Dependencies) >= 1
    /\ \E j, k \in 1..Len(AllTags) :
        /\ j < k
        /\ AllTags[j].Tag.Kind = Reference /\ AllTags[k].Tag.Kind = Reference
        /\ AllTags[j].Tag.Enclosing # EmptyStr /\ AllTags[k].Tag.Enclosing # EmptyStr
        /\ StrLess(AllTags[k].Tag.Enclosing, AllTags[j].Tag.Enclosing)

-----------------------------------------------------------------------------
(* Properties of Rank. *)

Ranked == pc \notin {"start", "parsed", "graphed"}

(* C8: after Rank, for any input order and any deps (also none), the file  *)
(* list is in descending order of rank, and files of equal rank stand in   *)
(* ascending order of path.                                                *)
C8_DescendingRankThenPath ==
    Ranked =>
        \A i \in 1..(Len(fileInfos) - 1) :
            \/ fileInfos[i].Rank > fileInfos[i + 1].Rank
            \/ /\ fileInfos[i].Rank = fileInfos[i + 1].Rank
               /\ StrLess(fileInfos[i].Path, fileInfos[i + 1].Path)

RECURSIVE RankSum(_, _)
RankSum(fis, i) == IF i > Len(fis) THEN 0 ELSE fis[i].Rank + RankSum(fis, i + 1)

(* What the rounding of the divisions may add up to: one hundredth. *)
SumTolerance == Scale \div 100

(* C9: after Rank no rank is negative; with at least one Dependency the    *)
(* ranks of all files sum to 1; with none and N > 0 files every rank is    *)
(* 1/N; Rank of an empty list leaves it empty.                             *)
C9_RanksSumToOne ==
    Ranked =>
        /\ Len(fileInfos) = Len(given)
        /\ \A i \in 1..Len(fileInfos) : fileInfos[i].Rank >= 0
        /\ deps # <<>> => Abs(RankSum(fileInfos, 1) - Scale) <= SumTolerance
        /\ deps = <<>> =>
            \A i \in 1..Len(fileInfos) : fileInfos[i].Rank = FDiv(Scale, Len(fileInfos))
        /\ given = <<>> => fileInfos = <<>>

(* Three files of which one has no outgoing edge, ranked apart. *)
C9_Witness ==
    /\ pc = "ranked"
    /\ Len(fileInfos) = 3
    /\ Len(deps) >= 2
    /\ \E i \in 1..Len(fileInfos) :
        \A k \in 1..Len(deps) : deps[k].Source # fileInfos[i].Path
    /\ fileInfos[1].Rank > fileInfos[3].Rank

-----------------------------------------------------------------------------
(* Properties of the projections. *)

(* In Spec the one projection step that leaves both filters empty. *)
SelectFilesCalled == pc = "done" /\ symbolFilter = EmptyStr /\ fileFilter = EmptyStr

(* C10: SelectFiles(rm, N) returns its input unchanged, with all Files,    *)
(* Dependencies, CallEdges and CallSites, whenever N <= 0 or N is at least *)
(* the number of files.                                                    *)
C10_SelectFilesIdentity ==
    (SelectFilesCalled /\ (maxFiles <= 0 \/ maxFiles >= Len(before.Files))) => rm = before

(* SelectFiles called with N the number of files on a map with a          *)
(* Dependency and a CallSite of the caller "<import>".                     *)
C10_Witness ==
    /\ SelectFilesCalled
    /\ maxFiles = Len(before.Files)
    /\ before.Dependencies # <<>>
    /\ \E i \in 1..Len(rm.CallSites) : rm.CallSites[i].Caller = ImportCaller

(* Paths of the files of a map, and whether one of its files holds a      *)
(* Definition tag of a name.                                               *)
PathsIn(m) == {m.Files[i].Path : i \in 1..Len(m.Files)}

DefinedIn(m, name) ==
    \E i \in 1..Len(m.Files) : \E j \in 1..Len(m.Files[i].Tags) :
        m.Files[i].Tags[j].Kind = Definition /\ m.Files[i].Tags[j].Name = name

(* C11: for 0 < N < file count SelectFiles(rm, N) returns the first N      *)
(* files in order, exactly the Dependencies with both endpoints among      *)
(* them, and exactly the CallEdges and CallSites whose caller is the name  *)
(* of a Definition in one of them.                                         *)
C11_SelectFilesSubset ==
    (SelectFilesCalled /\ 0 < maxFiles /\ maxFiles < Len(before.Files)) =>
        /\ rm.Files = [i \in 1..maxFiles |-> before.Files[i]]
        /\ rm.Dependencies = SelectSeq(before.Dependencies,
               LAMBDA d : d.Source \in PathsIn(rm) /\ d.Target \in PathsIn(rm))
        /\ rm.CallEdges = SelectSeq(before.CallEdges, LAMBDA e : DefinedIn(rm, e.Caller))
        /\ rm.CallSites = SelectSeq(before.CallSites, LAMBDA c : DefinedIn(rm, c.Caller))

(* SelectFiles(rm, 1) on two files drops a Dependency and a CallSite and   *)
(* keeps a CallEdge.                                                       *)
C11_Witness ==
    /\ SelectFilesCalled
    /\ maxFiles = 1
    /\ Len(before.Files) = 2
    /\ Len(rm.Dependencies) < Len(before.Dependencies)
    /\ Len(rm.CallSites) < Len(before.CallSites)
    /\ rm.CallEdges # <<>>

(* In Spec and SpecFields the one projection step that sets the symbol filter. *)
FilterBySymbolCalled == pc = "done" /\ symbolFilter # EmptyStr

(* A tag of the input that is a matched symbol of the default mode, and a  *)
(* name that such a tag carries.                                           *)
IsMatchedTag(t) ==
    /\ t.Kind = Definition
    /\ t.SymbolKind # Field
    /\ Contains(ToLower(t.Name), ToLower(symbolFilter))

IsMatchedName(name) ==
    \E i \in 1..Len(before.Files) : \E j \in 1..Len(before.Files[i].Tags) :
        IsMatchedTag(before.Files[i].Tags[j]) /\ before.Files[i].Tags[j].Name = name

(* A direct caller or callee of a matched symbol through one CallEdge. *)
IsRelatedName(name) ==
    \E k \in 1..Len(before.CallEdges) :
        \/ IsMatchedName(before.CallEdges[k].Caller) /\ before.CallEdges[k].Callee = name
        \/ IsMatchedName(before.CallEdges[k].Callee) /\ before.CallEdges[k].Caller = name

IsEmittedFile(f) ==
    \E j \in 1..Len(f.Tags) :
        \/ IsMatchedTag(f.Tags[j])
        \/ f.Tags[j].Kind = Definition /\ IsRelatedName(f.Tags[j].Name)

TrimmedTags(f) ==
    SelectSeq(f.Tags, LAMBDA t :
        /\ t.Kind = Definition
        /\ t.SymbolKind # Field
        /\ (IsMatchedName(t.Name) \/ IsRelatedName(t.Name)))

(* C12: FilterBySymbol(rm, s), called without the members mode, emits in   *)
(* input order exactly the files holding a non-Field Definition whose name *)
(* contains s case-insensitively or a Definition named as a direct caller  *)
(* or callee of such a symbol; each emitted file keeps exactly its         *)
(* non-Field Definitions with a matched or related name; when nothing      *)
(* matches there are no files, Dependencies or CallEdges.                  *)
C12_FilterBySymbolFiles ==
    (FilterBySymbolCalled /\ ~withMembers) =>
        LET kept == SelectSeq(before.Files, IsEmittedFile)
        IN /\ Len(rm.Files) = Len(kept)
           /\ \A i \in 1..Len(kept) :
                rm.Files[i] = [kept[i] EXCEPT !.Tags = TrimmedTags(kept[i])]
           /\ (~\E n \in Names : IsMatchedName(n)) =>
                (rm.Files = <<>> /\ rm.Dependencies = <<>> /\ rm.CallEdges = <<>>)

(* FilterBySymbol(rm, "g") matches the class G in one file, trims a Field  *)
(* whose name contains "g" from it, and emits a second file only for       *)
(* defining a function that G calls or that calls G.                       *)
C12_Witness ==
    /\ FilterBySymbolCalled /\ ~withMembers
    /\ Len(rm.Files) = 2
    /\ \E i \in 1..2 : ~\E j \in 1..Len(before.Files[i].Tags) :
            IsMatchedTag(before.Files[i].Tags[j])
    /\ \E i \in 1..Len(before.Files) : \E j \in 1..Len(before.Files[i].Tags) :
            /\ before.Files[i].Tags[j].SymbolKind = Field
            /\ Contains(ToLower(before.Files[i].Tags[j].Name), ToLower(symbolFilter))
            /\ IsEmittedFile(before.Files[i])

(* Paths of the input files that FilterBySymbol emits: the matched-file set. *)
MatchedFileSet ==
    {before.Files[i].Path : i \in {k \in 1..Len(before.Files) : IsEmittedFile(before.Files[k])}}

TouchesMatched(e) == IsMatchedName(e.Caller) \/ IsMatchedName(e.Callee)

(* C13: FilterBySymbol, called without the members mode, keeps exactly the *)
(* Dependencies with Source or Target in the matched-file set and exactly  *)
(* the CallEdges and CallSites whose Caller or Callee is a directly        *)
(* matched symbol, so an edge between related symbols only is dropped.     *)
C13_FilterBySymbolEdges ==
    (FilterBySymbolCalled /\ ~withMembers) =>
        /\ rm.Dependencies = SelectSeq(before.Dependencies,
               LAMBDA d : d.Source \in MatchedFileSet \/ d.Target \in MatchedFileSet)
        /\ rm.CallEdges = SelectSeq(before.CallEdges, TouchesMatched)
        /\ rm.CallSites = SelectSeq(before.CallSites, TouchesMatched)

(* FilterBySymbol(rm, "g") keeps a Dependency whose Source is not emitted, *)
(* keeps the CallEdge from f to the matched G and drops the CallEdge from  *)
(* the related f to itself, with its CallSite.                             *)
C13_Witness ==
    /\ FilterBySymbolCalled /\ ~withMembers
    /\ \E k \in 1..Len(rm.Dependencies) : rm.Dependencies[k].Source \notin PathsIn(rm)
    /\ rm.CallEdges # <<>>
    /\ \E k \in 1..Len(before.CallEdges) :
            /\ before.CallEdges[k].Caller = nF /\ before.CallEdges[k].Callee = nF
            /\ IsRelatedName(nF)
    /\ ~\E k \in 1..Len(rm.CallEdges) : rm.CallEdges[k].Callee = nF
    /\ Len(rm.CallSites) < Len(before.CallSites)

(* In Spec and SpecFields the one projection step that sets the file filter. *)
FilterByFileCalled == pc = "done" /\ fileFilter # EmptyStr

PathMatches(path) == Contains(ToLower(path), ToLower(fileFilter))

(* C14: FilterByFile(rm, p) emits, in input order and with their tags      *)
(* untouched, exactly the files whose path contains p case-insensitively,  *)
(* exactly the Dependencies with Source or Target among them, exactly the  *)
(* CallEdges whose Caller is the name of a Definition in one of them, and  *)
(* exactly the CallSites whose File is one of them.                        *)
C14_FilterByFileProjection ==
    FilterByFileCalled =>
        /\ rm.Files = SelectSeq(before.Files, LAMBDA f : PathMatches(f.Path))
        /\ rm.Dependencies = SelectSeq(before.Dependencies,
               LAMBDA d : PathMatches(d.Source) \/ PathMatches(d.Target))
        /\ rm.CallEdges = SelectSeq(before.CallEdges, LAMBDA e : DefinedIn(rm, e.Caller))
        /\ rm.CallSites = SelectSeq(before.CallSites, LAMBDA c : PathMatches(c.File))

(* FilterByFile(rm, "b") keeps the file "B" and drops another file, keeps  *)
(* a Dependency that leaves the kept files, and keeps one CallEdge and one *)
(* CallSite while dropping others.                                         *)
C14_Witness ==
    /\ FilterByFileCalled
    /\ \E i \in 1..Len(rm.Files) : ~Contains(rm.Files[i].Path, fileFilter)
    /\ Len(rm.Files) < Len(before.Files)
    /\ \E k \in 1..Len(rm.Dependencies) : rm.Dependencies[k].Target \notin PathsIn(rm)
    /\ rm.CallEdges # <<>> /\ Len(rm.CallEdges) < Len(before.CallEdges)
    /\ rm.CallSites # <<>> /\ Len(rm.CallSites) < Len(before.CallSites)

(* C15: FilterByFile is idempotent: FilterByFile(FilterByFile(rm, p), p)   *)
(* has the Files, Dependencies, CallEdges and CallSites of                 *)
(* FilterByFile(rm, p).                                                    *)
C15_FilterByFileIdempotent ==
    pc = "again" =>
        /\ rm.Files = before.Files
        /\ rm.Dependencies = before.Dependencies
        /\ rm.CallEdges = before.CallEdges
        /\ rm.CallSites = before.CallSites

(* The second call ran on a projection that holds a file, a Dependency     *)
(* reaching a file outside the projection, a CallEdge and a CallSite.      *)
C15_Witness ==
    /\ pc = "again"
    /\ before.Files # <<>>
    /\ \E k \in 1..Len(before.Dependencies) :
            before.Dependencies[k].Source \notin PathsIn(before)
    /\ before.CallEdges # <<>>
    /\ before.CallSites # <<>>

-----------------------------------------------------------------------------
(* Properties of run() with both filters. *)

BothFilters == pc = "done" /\ symbolFilter # EmptyStr /\ fileFilter # EmptyStr

(* C16: with --symbol S and --file F run() computes                        *)
(* FilterByFile(FilterBySymbol(rm, S), F), the symbol filter first, and    *)
(* the files of the result are exactly the files of the symbol projection  *)
(* whose path contains F.                                                  *)
C16_SymbolThenFile ==
    BothFilters =>
        /\ before = FilterBySymbol(unfiltered, symbolFilter, withMembers)
        /\ rm = FilterByFile(before, fileFilter)
        /\ rm.Files = SelectSeq(before.Files, LAMBDA f : PathMatches(f.Path))

(* A run with --symbol g --file b on three files: the symbol filter drops  *)
(* a file, the file filter drops another, and one file is emitted.         *)
C16_Witness ==
    /\ BothFilters
    /\ Len(before.Files) < Len(unfiltered.Files)
    /\ Len(rm.Files) < Len(before.Files)
    /\ rm.Files # <<>>

-----------------------------------------------------------------------------
(* Properties of the projections as objects. *)

(* A projection was called and before holds the map that was passed to it. *)
ProjectionReturned ==
    \/ pc \in {"selected", "filtering"} /\ maxFiles > 0
    \/ pc = "symbolDone" /\ symbolFilter # EmptyStr
    \/ pc = "done" /\ fileFilter # EmptyStr

(* C17: SelectFiles, FilterBySymbol and FilterByFile never mutate their    *)
(* input, whose Files, Tags, Ranks, Dependencies, CallEdges and CallSites  *)
(* stay as they were passed, and each returns a new RepoMap that is        *)
(* independent of its input.                                               *)
C17_InputUntouchedNewMap ==
    ProjectionReturned => (input = before /\ ~aliased)

-----------------------------------------------------------------------------
(* Properties of Dependencies in the maps handed out. *)

(* The file at path holds, in the map m, a Definition tag named name. *)
DefinesIn(m, path, name) ==
    \E i \in 1..Len(m.Files) :
        /\ m.Files[i].Path = path
        /\ \E j \in 1..Len(m.Files[i].Tags) :
            m.Files[i].Tags[j].Kind = Definition /\ m.Files[i].Tags[j].Name = name

(* A RepoMap has been built; rm is the builder's map or a projection of it. *)
MapBuilt == pc \in {"built", "sited", "done", "again"}

(* rm is the builder's map or a result of SelectFiles. *)
Unfiltered == MapBuilt /\ symbolFilter = EmptyStr /\ fileFilter = EmptyStr

(* C18 as stated: in every output RepoMap, the sub-maps of SelectFiles,    *)
(* FilterBySymbol and FilterByFile included, every symbol of a Dependency  *)
(* is the name of a Definition tag that the Dependency's target file holds *)
(* in that same RepoMap.                                                   *)
C18_SymbolsDefinedInSameMap ==
    MapBuilt =>
        \A k \in 1..Len(rm.Dependencies) : \A n \in 1..Len(rm.Dependencies[k].Symbols) :
            DefinesIn(rm, rm.Dependencies[k].Target, rm.Dependencies[k].Symbols[n])

(* C18 amended: every symbol of a Dependency is the name of a Definition   *)
(* tag of the target file among the files the graph was built from; the    *)
(* target file holds that tag in the same RepoMap when the map is the      *)
(* builder's or a result of SelectFiles, while a sub-map of FilterBySymbol *)
(* or FilterByFile may leave the target file out or trim the tag.          *)
C18_SymbolsDefinedInTarget ==
    MapBuilt =>
        \A k \in 1..Len(rm.Dependencies) : \A n \in 1..Len(rm.Dependencies[k].Symbols) :
            /\ HasTag(rm.Dependencies[k].Target, Definition, rm.Dependencies[k].Symbols[n])
            /\ Unfiltered =>
                 DefinesIn(rm, rm.Dependencies[k].Target, rm.Dependencies[k].Symbols[n])

(* FilterByFile kept a Dependency whose target file is not in the sub-map. *)
C18_Witness ==
    /\ FilterByFileCalled
    /\ \E k \in 1..Len(rm.Dependencies) :
        /\ rm.Dependencies[k].Target \notin PathsIn(rm)
        /\ HasTag(rm.Dependencies[k].Target, Definition, rm.Dependencies[k].Symbols[1])

-----------------------------------------------------------------------------
(* Properties of parseFilesConcurrent. *)

(* parseFilesConcurrent has returned its fileInfos. *)
ParseReturned == pc = "parsed" /\ resultsClosed

(* The position of a path in the input file list. *)
PositionIn(path) == CHOOSE i \in 1..Len(files) : files[i].Path = path

(* C19: parseFilesConcurrent returns the FileInfos in the order of the     *)
(* input file list, for every number of workers and every order in which   *)
(* the workers finish: when file i precedes file j in the input and both   *)
(* are returned, i precedes j in the result.                               *)
C19_InputOrderKept ==
    ParseReturned =>
        /\ \A a \in 1..Len(fileInfos) : \E i \in 1..Len(files) :
              files[i].Path = fileInfos[a].Path
        /\ \A a, b \in 1..Len(fileInfos) :
              a < b => PositionIn(fileInfos[a].Path) < PositionIn(fileInfos[b].Path)

(* Two workers: the result of a later file reached main before the result  *)
(* of an earlier one, and both files are returned.                         *)
C19_Witness ==
    /\ ParseReturned
    /\ numWorkers > 1
    /\ Len(fileInfos) > 1
    /\ \E a, b \in 1..Len(arrived) : a < b /\ arrived[a] > arrived[b]

(* C20: no parser is used by two workers: a parser is used only by the     *)
(* worker that made it, a worker makes at most one parser per language and *)
(* uses that one for every file of the language it parses, and the tag     *)
(* query of a language is compiled at most once for all workers.           *)
C20_ParsersPrivate ==
    /\ \A u \in used : \E c \in created :
          /\ c.id = u.parser
          /\ c.worker = u.worker
          /\ c.language = files[u.index].Language
    /\ \A c, d \in created :
          (c.worker = d.worker /\ c.language = d.language) => c = d
    /\ \A c, d \in created : c.id = d.id => c = d
    /\ \A l \in Languages : compiles[l] <= 1

(* Two workers hold a parser each for the same language, whose query was   *)
(* compiled once, and one of them has parsed two files with its parser.    *)
C20_Witness ==
    /\ \E c, d \in created :
          c.worker # d.worker /\ c.language = d.language /\ compiles[c.language] = 1
    /\ \E u, v \in used : u.parser = v.parser /\ u.index # v.index

(* File i failed: it could not be read, it could not be parsed, or the    *)
(* tag query of its language does not compile.                             *)
FileFailed(i) ==
    \/ i \in env.unreadable
    \/ i \in env.unparseable
    \/ files[i].Language \in env.badQuery

(* C21: a per-file failure of any kind (file unreadable, source            *)
(* unparseable, tag query of its language fails to compile) is logged as a *)
(* warning and the file is absent from the extraction result, while every  *)
(* file that did not fail is returned.                                     *)
C21_FailedFilesSkipped ==
    ParseReturned =>
        \A i \in 1..Len(files) :
            IF FileFailed(i)
            THEN /\ i \in warned
                 /\ files[i].Path \notin {fileInfos[a].Path : a \in 1..Len(fileInfos)}
            ELSE /\ i \notin warned
                 /\ files[i].Path \in {fileInfos[a].Path : a \in 1..Len(fileInfos)}

-----------------------------------------------------------------------------
(* Properties of the pipeline of run(). *)

(* The RepoMap run() builds when Rank leaves the files in the order fis. *)
MapOf(fis) ==
    [Files |-> fis, Dependencies |-> BuildGraph(given),
     CallEdges |-> BuildCallGraph(fis), CallSites |-> <<>>, Members |-> NoTags]

-----------------------------------------------------------------------------
(* Properties of run() and its cache file. *)

(* The latest run() had --symbol or --file, and --cache. *)
FocusedRunWithCache ==
    /\ pc = "finished"
    /\ cachePath
    /\ symbolFilter # EmptyStr \/ fileFilter # EmptyStr

(* The output of a run without filter flags on the files as ranked. *)
FullOutput == Encode(RunMap(fileInfos, deps, maxFiles, EmptyStr, EmptyStr, FALSE))

(* C23: a run with --symbol or --file bypasses the cache read, but the     *)
(* full, unfiltered output is still written to the cache file, so that a   *)
(* following unfiltered run with the same --cache path finds a fresh cache *)
(* and is served from it.                                                  *)
C23_FocusedRunWritesCache ==
    FocusedRunWithCache =>
        /\ cacheIsFresh
        /\ TrimRightNewline(cache.data) = FullOutput

-----------------------------------------------------------------------------
(* Properties of the language adapters. *)

(* The nearest function around the call site is an anonymous one: index of *)
(* the first closure node, with no named definition below it.              *)
InClosure ==
    \E i \in 1..Len(callSite.ctx) :
        /\ callSite.ctx[i].Type \in ClosureTypes
        /\ \A j \in 1..(i - 1) : callSite.ctx[j].Type \notin NamedDefTypes

(* C24: for every language adapter, find_enclosing_def returns the empty   *)
(* string for a reference inside a nested anonymous function or closure,   *)
(* even when the closure is itself inside a named function or method: the  *)
(* call is never attributed to the surrounding named function.             *)
C24_ClosureCallUnattributed ==
    (pc = "resolved" /\ InClosure) => enclosing = EmptyStr

-----------------------------------------------------------------------------
(* Properties of the CallSites of run(). *)

(* run() has reached toon.Encode. *)
RunEncodes == pc = "done"

(* The run has --symbol or --file. *)
Focused == symbolFilter # EmptyStr \/ fileFilter # EmptyStr

(* The output holds a callsites table. *)
HasCallSitesTable(out) == \E i \in 1..Len(out) : out[i].name = "callsites"

(* C25: CallSites are populated only for focused queries: a run with       *)
(* neither --symbol nor --file emits a RepoMap whose CallSites list is     *)
(* empty (no callsites table), whatever other flags are set, while a run   *)
(* with --symbol or --file builds CallSites before filtering.              *)
C25_CallSitesOnlyWhenFocused ==
    RunEncodes =>
        IF Focused
        THEN unfiltered.CallSites = BuildCallSites(fileInfos)
        ELSE rm.CallSites = <<>> /\ ~HasCallSitesTable(Encode(rm))

-----------------------------------------------------------------------------
(* Properties of the members mode of FilterBySymbol. *)

(* s begins with p. *)
IsPrefix(p, s) == Len(p) <= Len(s) /\ SubSeq(s, 1, Len(p)) = p

(* The tags of the map FilterBySymbol was called on. *)
TagsBefore == TagsOf(before.Files)

(* The Definitions that are not fields and match the substring. *)
PrimaryMatched ==
    {k \in 1..Len(TagsBefore) :
        /\ TagsBefore[k].Kind = Definition
        /\ TagsBefore[k].SymbolKind # Field
        /\ Contains(ToLower(TagsBefore[k].Name), ToLower(symbolFilter))}

(* The names of the matched class symbols. *)
MatchedClasses ==
    {TagsBefore[k].Name : k \in {j \in PrimaryMatched : TagsBefore[j].SymbolKind = Class}}

IsFieldDef(t) == t.Kind = Definition /\ t.SymbolKind = Field

(* The fields `C.x` of the matched classes C, in tag order. *)
ClassFields ==
    SelectSeq(TagsBefore, LAMBDA t :
        IsFieldDef(t) /\ \E c \in MatchedClasses : IsPrefix(c \o Dot, t.Name))

(* The fields the member fallback matches on the part after the last dot. *)
FallbackFields ==
    SelectSeq(TagsBefore, LAMBDA t :
        IsFieldDef(t) /\ Contains(ToLower(Unqualified(t.Name)), ToLower(symbolFilter)))

(* C26: in members mode FilterBySymbol sets Members to every Field         *)
(* Definition whose qualified name begins with `C.` for a matched class    *)
(* symbol C; only if that yields nothing and the member fallback was used  *)
(* (no non-Field Definition matched) does it carry over the directly       *)
(* matched Field tags; with members mode off Members is always empty.      *)
C26_MembersOfMatchedClasses ==
    FilterBySymbolCalled =>
        rm.Members = IF ~withMembers THEN NoTags
                     ELSE IF ClassFields # <<>> THEN ClassFields
                     ELSE IF PrimaryMatched = {} THEN FallbackFields
                     ELSE NoTags

-----------------------------------------------------------------------------
(* Properties of `repoguide init`. *)

(* C27: init is idempotent for any pre-existing file content c:            *)
(* applySection(applySection(c, section), section) equals                  *)
(* applySection(c, section), so a second `repoguide init` on the same path *)
(* leaves the file exactly as after the first run and never adds a second  *)
(* sentinel block.                                                         *)
C27_InitIdempotent ==
    inits >= 1 =>
        /\ applySection(target, generateSection) = target
        /\ target = firstResult

-----------------------------------------------------------------------------
(* Termination of parseFilesConcurrent. *)

(* The number of places index i is in: not yet sent, in the work channel,  *)
(* held by a worker, warned about, in the results channel, collected.      *)
PlacesOf(i) ==
    (IF i > sent THEN 1 ELSE 0)
    + Cardinality({j \in 1..Len(work) : work[j] = i})
    + Cardinality({w \in 1..numWorkers : widx[w] = i})
    + (IF i \in warned THEN 1 ELSE 0)
    + Cardinality({j \in 1..Len(results) : results[j].index = i})
    + Cardinality({j \in 1..Len(arrived) : arrived[j] = i})

(* The workers at position p of their loop. *)
WorkersAt(p) == Cardinality({w \in 1..numWorkers : wpc[w] = p})

(* An upper bound on the number of steps left before the function returns. *)
StepsLeft ==
    5 * (Len(files) - sent) + 4 * Len(work)
    + 3 * WorkersAt("have") + 2 * WorkersAt("parse")
    + Len(results)
    + running
    + (IF pc = "sending" THEN 1 ELSE 0)
    + (IF resultsClosed THEN 0 ELSE 1)
    + (IF pc = "parsed" THEN 0 ELSE 1)

(* No send finds its channel full, and nothing is sent on a closed one. *)
SendsNeverBlock ==
    /\ Len(work) <= Len(files)
    /\ sent < Len(files) => Len(work) < Len(files) /\ ~workClosed
    /\ \A w \in 1..numWorkers :
          wpc[w] = "parse" => Len(results) < Len(files) /\ ~resultsClosed

(* The function has returned: workers gone, channels closed and drained. *)
Returned ==
    /\ pc = "parsed"
    /\ \A w \in 1..numWorkers : wpc[w] = "exit"
    /\ running = 0
    /\ workClosed /\ work = <<>>
    /\ resultsClosed /\ results = <<>>

(* C28: parseFilesConcurrent always terminates without deadlock for every  *)
(* file count (zero included) and every worker count: until it returns    *)
(* some goroutine can take a step, every step lowers a bound on the steps  *)
(* left, every file index is in exactly one place at any time (so it is    *)
(* handed to exactly one worker exactly once), no send on work or results  *)
(* finds its channel full or closed, results is closed only after every    *)
(* worker has exited, and on return all workers have exited; also when     *)
(* files fail.                                                             *)
C28_Terminates ==
    /\ [](pc # "parsed" => ENABLED NextParse)
    /\ [](\A i \in 1..Len(files) : PlacesOf(i) = 1)
    /\ []SendsNeverBlock
    /\ [](resultsClosed => \A w \in 1..numWorkers : wpc[w] = "exit")
    /\ [](pc = "parsed" => Returned)
    /\ [][StepsLeft' < StepsLeft]_vars

(* Two workers have returned from three files, one of which failed. *)
C28_Witness ==
    /\ Returned
    /\ numWorkers = 2
    /\ Len(files) >= 3
    /\ warned # {}
    /\ Len(arrived) = Len(files) - 1

-----------------------------------------------------------------------------
(* CallEdges against CallSites. *)

(* CallEdge ce and CallSite cs are about the same caller and callee. *)
SameCall(ce, cs) == ce.Caller = cs.Caller /\ ce.Callee = cs.Callee

(* Every CallEdge of m has a CallSite, and every CallSite of m whose       *)
(* caller is not <import> has a CallEdge.                                  *)
EdgesMatchSites(m) ==
    /\ \A i \in 1..Len(m.CallEdges) :
          \E j \in 1..Len(m.CallSites) : SameCall(m.CallEdges[i], m.CallSites[j])
    /\ \A j \in 1..Len(m.CallSites) :
          m.CallSites[j].Caller # ImportCaller =>
              \E i \in 1..Len(m.CallEdges) : SameCall(m.CallEdges[i], m.CallSites[j])

(* C29 as stated: CallEdges and CallSites are consistent in the builder's  *)
(* map and in the results of SelectFiles, FilterBySymbol and FilterByFile: *)
(* every CallEdge is witnessed by a CallSite with the same caller and      *)
(* callee, and every CallSite whose caller is not <import> has a CallEdge  *)
(* with the same caller and callee.                                        *)
C29_EdgesMatchSitesEverywhere ==
    pc \in {"sited", "done", "again"} => EdgesMatchSites(rm)

(* C29, amended: CallEdges and CallSites are consistent in the builder's   *)
(* map and in the results of SelectFiles and FilterBySymbol applied to it: *)
(* every CallEdge is witnessed by a CallSite with the same caller and      *)
(* callee, and every CallSite whose caller is not <import> has a CallEdge  *)
(* with the same caller and callee.  FilterByFile keeps CallEdges by the   *)
(* file that defines the caller and CallSites by the file of the call,     *)
(* and its result need not be consistent.                                  *)
C29_EdgesMatchSites ==
    (pc = "sited" \/ SelectFilesCalled \/ FilterBySymbolCalled) => EdgesMatchSites(rm)

(* SelectFiles has cut a map down and dropped CallSites, keeping a         *)
(* CallEdge and an <import> CallSite.                                      *)
C29_Witness ==
    /\ SelectFilesCalled
    /\ maxFiles > 0 /\ maxFiles < Len(before.Files)
    /\ rm.CallEdges # <<>>
    /\ Len(rm.CallSites) < Len(before.CallSites)

-----------------------------------------------------------------------------
(* -n together with a filter. *)

(* run() has finished with -n below the file count and --symbol or --file. *)
TopNWithFilter ==
    /\ pc = "done"
    /\ maxFiles > 0 /\ maxFiles < Len(fileInfos)
    /\ (symbolFilter # EmptyStr \/ fileFilter # EmptyStr)

(* C30: when a run combines -n N (0 < N < file count) with --symbol or     *)
(* --file, every CallSite of the emitted RepoMap has a caller that is the  *)
(* name of a Definition in one of the top-N files.                         *)
C30_CallSitesWithinTopN ==
    TopNWithFilter =>
        \A j \in 1..Len(rm.CallSites) :
            rm.CallSites[j].Caller \in DefNames(SubSeq(fileInfos, 1, maxFiles))

====
